---- MODULE Spec2Model ----
(***************************************************************************)
(* Model of the image editors of the QR upload SDK: the single-image       *)
(* editor QrImageEditor (edit state, crop drag sessions, the undo/redo     *)
(* history with its stored canvas bitmaps and asynchronous image loads)    *)
(* and the crop geometry of the multi-page MultiScan component.            *)
(*                                                                         *)
(* Numbers: crop coordinates are natural-pixel values.  A pointer move is  *)
(* given by its natural delta (pointer displacement / imageScale); the     *)
(* model draws displacements that are whole multiples of imageScale, so    *)
(* the coordinates stay integers.  Display sizes are kept as exact         *)
(* fractions; a canvas truncates them to whole pixels.                     *)
(***************************************************************************)
EXTENDS Integers, Sequences, FiniteSets, TLC

(***************************************************************************)
(* Program constants                                                       *)
(***************************************************************************)
MIN_SIZE == 50
HISTORY_CAP == 50
FILL_NUM == 95
FILL_DEN == 100
DEFAULT_SIDE == 100
DEFAULT_MAX_IMAGES == 10
EDITED == 100
DEFAULT_POLLING_INTERVAL == 3000
MIN_POLLING_INTERVAL == 1000

(***************************************************************************)
(* Bounds of the exploration                                               *)
(***************************************************************************)
\* user operations explored per session in Spec
MaxSteps == 4
\* SpecHistory: history operations explored per session
MaxHistorySteps == 5
\* image loads (crop-apply, undo/redo restore) that may be outstanding at once
MaxPending == 2
\* overlay refresh timers that may be outstanding at once
MaxTimers == 2
\* SpecCap: user operations other than the flip toggle explored per session
MaxCapOps == 2
\* SpecCap: those operations are explored once the history holds this many entries
NearCap == 49
\* SpecCap: flip toggles explored per session
MaxCapFlips == 52
\* SpecSave: user operations explored before the save
MaxSaveSteps == 4
\* encodings of a save that may be outstanding at once
MaxSaving == 1
\* SpecClose: user operations explored per session
MaxCloseSteps == 3
\* SpecScan: page ids issued per session
MaxPageIds == 11
\* SpecScan: operations other than adding a page explored per session
MaxScanOps == 2
\* SpecScan: longest page list on which positions are selected, moved and deleted
MaxOpPages == 4
MaxApplying == 1
MaxComposing == 2
MaxCaptures == 3
MaxSubmits == 1
MaxSubmitCalls == 2
MaxNativeOps == 4
Precision == 10

\* natural sizes of the loaded bitmap, and the canvas container it is shown in
ImageSizes == { <<1000, 800>>, <<200, 160>> }
Container == [w |-> 400, h |-> 300]
\* rotation slider positions explored
Rotations == { 45 }
\* handles and natural deltas explored inside editing sessions
Handles == { "nw", "ne", "sw", "se", "n", "s", "e", "w" }
SessionHandles == { "nw", "se" }
SessionDeltas == { <<100, 50>>, <<-2000, -2000>> }

Min(a, b) == IF a < b THEN a ELSE b
Max(a, b) == IF a > b THEN a ELSE b

\* JavaScript `a || b` on numbers: 0 is falsy
OrElse(a, b) == IF a = 0 THEN b ELSE a

(***************************************************************************)
(* Bitmaps.  A bitmap is its pixel size and its content; content is the    *)
(* derivation of the pixels from the loaded file.  Two derivations that    *)
(* produce the same pixels (a crop of the full bounds, an unrotated        *)
(* unflipped drawing at the bitmap's own size) are the same content.       *)
(***************************************************************************)
FileContent == [kind |-> "file", src |-> <<>>, p |-> <<>>]
NoContent == [kind |-> "none", src |-> <<>>, p |-> <<>>]
NoImage == [w |-> 0, h |-> 0, c |-> NoContent]

B2N(b) == IF b THEN 1 ELSE 0

\* ctx.drawImage(img, x, y, w, h, 0, 0, w, h) on a w x h canvas
CropOf(img, x, y, w, h) ==
  [w |-> w, h |-> h,
   c |-> IF x = 0 /\ y = 0 /\ w = img.w /\ h = img.h
         THEN img.c
         ELSE [kind |-> "crop", src |-> <<img.c>>, p |-> <<x, y, w, h>>]]

\* the preview drawing: img stretched to cw x ch, rotated and flipped about the centre
PreviewOf(img, rot, fx, fy, cw, ch) ==
  [w |-> cw, h |-> ch,
   c |-> IF rot = 0 /\ ~fx /\ ~fy /\ cw = img.w /\ ch = img.h
         THEN img.c
         ELSE [kind |-> "preview", src |-> <<img.c>>,
               p |-> <<rot, B2N(fx), B2N(fy), cw, ch>>]]

\* canvas.toDataURL('image/png') and the decoding of such a URL by an Image
ToDataURL(cv) == [mime |-> "image/png", w |-> cv.w, h |-> cv.h, c |-> cv.c]
DecodeDataURL(url) == [w |-> url.w, h |-> url.h, c |-> url.c]


(***************************************************************************)
(* Exact fractions for display sizes and the natural-to-display scale      *)
(***************************************************************************)
RECURSIVE Gcd(_, _)
Gcd(a, b) == IF b = 0 THEN a ELSE Gcd(b, a % b)
Frac(n, d) == [n |-> n \div Gcd(n, d), d |-> d \div Gcd(n, d)]
Floor(f) == f.n \div f.d
\* Math.round: the nearest integer, a tie going up
Round(f) == (2 * f.n + f.d) \div (2 * f.d)
ZeroFrac == [n |-> 0, d |-> 1]
OneFrac == [n |-> 1, d |-> 1]

(***************************************************************************)
(* The editor's state                                                      *)
(***************************************************************************)
VARIABLES
  phase,             \* "loading" until openEditor's image load settles
  image,             \* this.image
  originalImage,     \* this.originalImage
  state,             \* this.state (EditorState without imageDataUrl)
  history,           \* this.history
  historyIndex,      \* this.historyIndex (0-based, -1 when empty)
  cropMode,          \* this.cropMode
  overlayShown,      \* cropOverlay.style.display = 'block'
  canvas,            \* the preview canvas: its pixel size and content
  fixedCanvasWidth,  \* this.fixedCanvasWidth
  fixedCanvasHeight, \* this.fixedCanvasHeight
  imageScale,        \* this.imageScale
  isDraggingCrop, dragType, dragHandleType, cropStartState,
  dragFrom,          \* observation: the image and scale at the last pointer-down
  pendingLoads,      \* Image objects whose src is set and whose onload is due
  overlayTimers,     \* outstanding setTimeout(() => updateCropOverlay())
  rotationTimeout,   \* the slider's debounce timer is armed
  savedFiles,        \* the files handed to config.onSave
  saving,            \* the final canvases whose toBlob encoding is outstanding
  callbacks,         \* the calls of config.onSave and config.onCancel, in order
  \* observation of the run (not program state)
  op,                \* the handler that ran last
  steps,             \* user operations so far
  toggles,           \* SpecCap: flip toggles so far
  pushed,            \* the snapshot the last handler pushed, if any
  pre,               \* history length, index and image before the last handler
  rt,                \* the run of undos (and the redo after it) the user made last
  geo,               \* inputs and results of one crop-geometry computation
  scan,              \* the MultiScan object and what it handed to its collaborators
  sdk,               \* the QrUpload object and the outcome of the last call made on it
  fit                \* inputs and result of one page-fit computation

editor == <<phase, image, originalImage, state, history, historyIndex, cropMode,
            overlayShown, canvas, fixedCanvasWidth, fixedCanvasHeight, imageScale,
            pendingLoads, overlayTimers, rotationTimeout, savedFiles, saving, callbacks>>
dragv == <<isDraggingCrop, dragType, dragHandleType, cropStartState, dragFrom>>
obs == <<op, steps, toggles, pushed, pre, rt>>
vars == <<editor, dragv, obs, geo, scan, sdk, fit>>

InitialState == [rotation |-> 0, flipX |-> FALSE, flipY |-> FALSE,
                 cropX |-> 0, cropY |-> 0, cropWidth |-> 0, cropHeight |-> 0]
ZeroRect == [x |-> 0, y |-> 0, width |-> 0, height |-> 0]
\* a fresh <canvas> element: 300 x 150 transparent pixels
BlankCanvas == [w |-> 300, h |-> 150, c |-> [kind |-> "blank", src |-> <<>>, p |-> <<>>]]

RectOf(st) == [x |-> st.cropX, y |-> st.cropY, width |-> st.cropWidth, height |-> st.cropHeight]
WithRect(st, r) == [st EXCEPT !.cropX = r.x, !.cropY = r.y,
                              !.cropWidth = r.width, !.cropHeight = r.height]

\* the editor object as one record, threaded through the methods below
Cur == [image |-> image, originalImage |-> originalImage, state |-> state,
        history |-> history, historyIndex |-> historyIndex, cropMode |-> cropMode,
        overlayShown |-> overlayShown, canvas |-> canvas,
        fixedCanvasWidth |-> fixedCanvasWidth, fixedCanvasHeight |-> fixedCanvasHeight,
        imageScale |-> imageScale, pendingLoads |-> pendingLoads,
        overlayTimers |-> overlayTimers, pushed |-> <<>>]

Commit(m) ==
  /\ image' = m.image
  /\ originalImage' = m.originalImage
  /\ state' = m.state
  /\ history' = m.history
  /\ historyIndex' = m.historyIndex
  /\ cropMode' = m.cropMode
  /\ overlayShown' = m.overlayShown
  /\ canvas' = m.canvas
  /\ fixedCanvasWidth' = m.fixedCanvasWidth
  /\ fixedCanvasHeight' = m.fixedCanvasHeight
  /\ imageScale' = m.imageScale
  /\ pendingLoads' = m.pendingLoads
  /\ overlayTimers' = m.overlayTimers
  /\ pushed' = m.pushed

(***************************************************************************)
(* Methods of QrImageEditor                                                *)
(***************************************************************************)
\* the snapshot saveState builds: { ...this.state } plus the canvas as a PNG data URL
Snapshot(st, cv) ==
  [rotation |-> st.rotation, flipX |-> st.flipX, flipY |-> st.flipY,
   cropX |-> st.cropX, cropY |-> st.cropY,
   cropWidth |-> st.cropWidth, cropHeight |-> st.cropHeight,
   imageDataUrl |-> IF cv = NoImage THEN <<>> ELSE <<ToDataURL(cv)>>]

\* the seven EditState fields of a snapshot
Fields(e) ==
  [rotation |-> e.rotation, flipX |-> e.flipX, flipY |-> e.flipY,
   cropX |-> e.cropX, cropY |-> e.cropY,
   cropWidth |-> e.cropWidth, cropHeight |-> e.cropHeight]

\* saveState without the cap: no history.shift()
SaveStateUncapped(m) ==
  LET kept == IF m.historyIndex < Len(m.history) - 1
              THEN SubSeq(m.history, 1, m.historyIndex + 1)
              ELSE m.history
      newState == Snapshot(m.state, m.canvas)
  IN  [m EXCEPT !.history = Append(kept, newState),
                !.historyIndex = m.historyIndex + 1,
                !.pushed = <<newState>>]

\* saveState whose eviction forgets `this.historyIndex--`
SaveStateKeepsIndex(m) ==
  LET kept == IF m.historyIndex < Len(m.history) - 1
              THEN SubSeq(m.history, 1, m.historyIndex + 1)
              ELSE m.history
      newState == Snapshot(m.state, m.canvas)
      added == Append(kept, newState)
  IN  [m EXCEPT !.history = IF Len(added) > HISTORY_CAP THEN Tail(added) ELSE added,
                !.historyIndex = m.historyIndex + 1,
                !.pushed = <<newState>>]

\* saveState without the slice that prunes the redo branch
SaveStateNoPrune(m) ==
  LET newState == Snapshot(m.state, m.canvas)
      added == Append(m.history, newState)
      idx == m.historyIndex + 1
  IN  IF Len(added) > HISTORY_CAP
      THEN [m EXCEPT !.history = Tail(added), !.historyIndex = idx - 1,
                     !.pushed = <<newState>>]
      ELSE [m EXCEPT !.history = added, !.historyIndex = idx,
                     !.pushed = <<newState>>]

SaveState(m) ==
  LET kept == IF m.historyIndex < Len(m.history) - 1
              THEN SubSeq(m.history, 1, m.historyIndex + 1)
              ELSE m.history
      newState == Snapshot(m.state, m.canvas)
      added == Append(kept, newState)
      idx == m.historyIndex + 1
  IN  IF Len(added) > HISTORY_CAP
      THEN [m EXCEPT !.history = Tail(added), !.historyIndex = idx - 1,
                     !.pushed = <<newState>>]
      ELSE [m EXCEPT !.history = added, !.historyIndex = idx,
                     !.pushed = <<newState>>]

\* the part of updateCropOverlay that writes this.state
ConstrainCrop(r, W, H) ==
  LET maxCropX == Max(0, W - MIN_SIZE)
      maxCropY == Max(0, H - MIN_SIZE)
      maxCropWidth == W - r.x
      maxCropHeight == H - r.y
  IN  [x |-> Max(0, Min(r.x, maxCropX)),
       y |-> Max(0, Min(r.y, maxCropY)),
       width |-> Max(MIN_SIZE, Min(r.width, maxCropWidth)),
       height |-> Max(MIN_SIZE, Min(r.height, maxCropHeight))]

UpdateCropOverlay(m) ==
  IF m.canvas = NoImage \/ m.image = NoImage
  THEN m
  ELSE [m EXCEPT !.state = WithRect(@, ConstrainCrop(RectOf(@), m.image.w, m.image.h)),
                 !.overlayShown = TRUE]

CalculateFixedCanvasSize(m) ==
  IF m.canvas = NoImage \/ m.image = NoImage
  THEN m
  ELSE LET W == m.image.w
           H == m.image.h
           wide == W * Container.h > H * Container.w
           displayWidth == IF wide THEN Frac(FILL_NUM * Container.w, FILL_DEN)
                           ELSE Frac(FILL_NUM * Container.h * W, FILL_DEN * H)
           displayHeight == IF wide THEN Frac(FILL_NUM * Container.w * H, FILL_DEN * W)
                            ELSE Frac(FILL_NUM * Container.h, FILL_DEN)
           unset == m.state.cropWidth = 0 \/ m.state.cropHeight = 0
       IN  [m EXCEPT !.fixedCanvasWidth = displayWidth,
                     !.fixedCanvasHeight = displayHeight,
                     !.imageScale = Frac(displayWidth.n, displayWidth.d * W),
                     !.state = IF unset
                               THEN WithRect(@, [x |-> 0, y |-> 0, width |-> W, height |-> H])
                               ELSE @]

Render(m) ==
  IF m.canvas = NoImage \/ m.image = NoImage
  THEN m
  ELSE LET drawn == [m EXCEPT !.canvas =
                       PreviewOf(m.image, m.state.rotation, m.state.flipX, m.state.flipY,
                                 Floor(m.fixedCanvasWidth), Floor(m.fixedCanvasHeight))]
       IN  IF m.cropMode THEN UpdateCropOverlay(drawn) ELSE drawn

\* setTimeout(() => this.updateCropOverlay(), ...): surplus timers coalesce
ScheduleOverlay(m) == [m EXCEPT !.overlayTimers = Min(@ + 1, MaxTimers)]

UpdateUIFromState(m) ==
  IF m.canvas = NoImage THEN m
  ELSE IF m.cropMode THEN ScheduleOverlay(m) ELSE m


UpdateState(m, updates, shouldSave, shouldRender) ==
  LET assigned == [m EXCEPT !.state = updates]
      saved == IF shouldSave THEN SaveState(assigned) ELSE assigned
  IN  IF shouldRender THEN Render(saved) ELSE saved

ToggleFlip(m, type) ==
  UpdateState(m,
              IF type = "horizontal"
              THEN [m.state EXCEPT !.flipX = ~@]
              ELSE [m.state EXCEPT !.flipY = ~@],
              TRUE, TRUE)

ResetCropToFullImage(m) ==
  IF m.image = NoImage THEN m
  ELSE UpdateState(m,
                   WithRect(m.state, [x |-> 0, y |-> 0,
                                      width |-> m.image.w, height |-> m.image.h]),
                   TRUE, TRUE)

\* the rotation slider's input listener, up to arming the debounce timer
RotationInput(m, value) == UpdateState(m, [m.state EXCEPT !.rotation = value], FALSE, TRUE)

SwitchTab(m, tab) ==
  IF m.canvas = NoImage THEN m
  ELSE [m EXCEPT !.cropMode = (tab = "crop"), !.overlayShown = (tab = "crop")]

\* `this.state = { rotation: target.rotation, ..., cropX: Math.max(0, target.cropX || 0), ... }`
Validated(targetState, img) ==
  [rotation |-> targetState.rotation,
   flipX |-> targetState.flipX,
   flipY |-> targetState.flipY,
   cropX |-> Max(0, OrElse(targetState.cropX, 0)),
   cropY |-> Max(0, OrElse(targetState.cropY, 0)),
   cropWidth |-> Max(MIN_SIZE, OrElse(targetState.cropWidth, OrElse(img.w, DEFAULT_SIDE))),
   cropHeight |-> Max(MIN_SIZE, OrElse(targetState.cropHeight, OrElse(img.h, DEFAULT_SIDE)))]

\* restoreImageFromDataUrl up to `img.src = dataUrl`: the load is outstanding
RestoreImageFromDataUrl(m, dataUrl) ==
  [m EXCEPT !.pendingLoads = Append(@, [kind |-> "restore", img |-> DecodeDataURL(dataUrl)])]

\* undo that pops the entries above the new index instead of keeping them for redo
UndoPops(m) ==
  IF m.historyIndex > 0
  THEN LET idx == m.historyIndex - 1
           targetState == m.history[idx + 1]
           moved == [m EXCEPT !.historyIndex = idx,
                              !.history = SubSeq(@, 1, idx + 1),
                              !.state = Validated(targetState, m.image)]
       IN  IF targetState.imageDataUrl # <<>>
           THEN RestoreImageFromDataUrl(moved, targetState.imageDataUrl[1])
           ELSE LET shown == Render(UpdateUIFromState(CalculateFixedCanvasSize(
                               [moved EXCEPT !.image = m.originalImage])))
                IN  IF shown.cropMode THEN ScheduleOverlay(shown) ELSE shown
  ELSE m

Undo(m) ==
  IF m.historyIndex > 0
  THEN LET idx == m.historyIndex - 1
           targetState == m.history[idx + 1]
           moved == [m EXCEPT !.historyIndex = idx,
                              !.state = Validated(targetState, m.image)]
       IN  IF targetState.imageDataUrl # <<>>
           THEN RestoreImageFromDataUrl(moved, targetState.imageDataUrl[1])
           ELSE LET shown == Render(UpdateUIFromState(CalculateFixedCanvasSize(
                               [moved EXCEPT !.image = m.originalImage])))
                IN  IF shown.cropMode THEN ScheduleOverlay(shown) ELSE shown
  ELSE m

\* redo that reads the entry it leaves instead of the entry it moves to
RedoStaleTarget(m) ==
  IF m.historyIndex < Len(m.history) - 1
  THEN LET idx == m.historyIndex + 1
           targetState == m.history[idx]
           moved == [m EXCEPT !.historyIndex = idx,
                              !.state = Validated(targetState, m.image)]
       IN  IF targetState.imageDataUrl # <<>>
           THEN RestoreImageFromDataUrl(moved, targetState.imageDataUrl[1])
           ELSE LET shown == Render(UpdateUIFromState(moved))
                IN  IF shown.cropMode THEN ScheduleOverlay(shown) ELSE shown
  ELSE m

Redo(m) ==
  IF m.historyIndex < Len(m.history) - 1
  THEN LET idx == m.historyIndex + 1
           targetState == m.history[idx + 1]
           moved == [m EXCEPT !.historyIndex = idx,
                              !.state = Validated(targetState, m.image)]
       IN  IF targetState.imageDataUrl # <<>>
           THEN RestoreImageFromDataUrl(moved, targetState.imageDataUrl[1])
           ELSE LET shown == Render(UpdateUIFromState(moved))
                IN  IF shown.cropMode THEN ScheduleOverlay(shown) ELSE shown
  ELSE m

\* resetAll that forgets `this.image = this.originalImage`
ResetAllKeepsImage(m) ==
  IF m.originalImage = NoImage THEN m
  ELSE LET reset == [m EXCEPT !.state = [rotation |-> 0, flipX |-> FALSE, flipY |-> FALSE,
                                         cropX |-> 0, cropY |-> 0,
                                         cropWidth |-> m.originalImage.w,
                                         cropHeight |-> m.originalImage.h]]
           sized == CalculateFixedCanvasSize(reset)
           rewound == [sized EXCEPT !.historyIndex = 0,
                                    !.history[1] = Snapshot(sized.state, NoImage)]
       IN  Render(UpdateUIFromState(rewound))

ResetAll(m) ==
  IF m.originalImage = NoImage THEN m
  ELSE LET reset == [m EXCEPT !.image = m.originalImage,
                              !.state = [rotation |-> 0, flipX |-> FALSE, flipY |-> FALSE,
                                         cropX |-> 0, cropY |-> 0,
                                         cropWidth |-> m.originalImage.w,
                                         cropHeight |-> m.originalImage.h]]
           sized == CalculateFixedCanvasSize(reset)
           rewound == [sized EXCEPT !.historyIndex = 0,
                                    !.history[1] = Snapshot(sized.state, NoImage)]
       IN  Render(UpdateUIFromState(rewound))

\* applyCrop up to `croppedImage.src = ...`: the cropped bitmap's load is outstanding
ApplyCrop(m) ==
  IF m.image = NoImage THEN m
  ELSE [m EXCEPT !.pendingLoads =
          Append(@, [kind |-> "crop",
                     img |-> CropOf(m.image, m.state.cropX, m.state.cropY,
                                    m.state.cropWidth, m.state.cropHeight)])]

\* croppedImage.onload
CropLoaded(m, croppedImage) ==
  LET replaced == [m EXCEPT !.image = croppedImage,
                            !.state = WithRect(@, [x |-> 0, y |-> 0,
                                                   width |-> croppedImage.w,
                                                   height |-> croppedImage.h])]
  IN  Render(SaveState(CalculateFixedCanvasSize(replaced)))

\* img.onload of restoreImageFromDataUrl
RestoreLoaded(m, img) ==
  LET shown == Render(UpdateUIFromState(CalculateFixedCanvasSize([m EXCEPT !.image = img])))
  IN  IF shown.cropMode THEN ScheduleOverlay(shown) ELSE shown

\* the save whose output frame is the bounding box of the rotated crop at quarter turns
HandleSaveRotatedFrame(m) ==
  LET turned == m.state.rotation \in {90, -90}
      outputWidth == Round(Frac(IF turned THEN m.state.cropHeight ELSE m.state.cropWidth, 1))
      outputHeight == Round(Frac(IF turned THEN m.state.cropWidth ELSE m.state.cropHeight, 1))
  IN  [w |-> outputWidth, h |-> outputHeight, type |-> "image/png",
       c |-> [kind |-> "output", src |-> <<m.image.c>>,
              p |-> <<m.state.rotation, B2N(m.state.flipX), B2N(m.state.flipY),
                      m.state.cropX, m.state.cropY, m.state.cropWidth, m.state.cropHeight>>]]

\* handleSave up to the encoding: the file drawn on the final canvas
HandleSave(m) ==
  LET outputWidth == Round(Frac(m.state.cropWidth, 1))
      outputHeight == Round(Frac(m.state.cropHeight, 1))
  IN  [w |-> outputWidth, h |-> outputHeight, type |-> "image/png",
       c |-> [kind |-> "output", src |-> <<m.image.c>>,
              p |-> <<m.state.rotation, B2N(m.state.flipX), B2N(m.state.flipY),
                      m.state.cropX, m.state.cropY, m.state.cropWidth, m.state.cropHeight>>]]

\* the catch that reports the failed load twice
OpenEditorFailedTwice(calls) == Append(Append(calls, "onCancel"), "onCancel")

\* openEditor's catch: config.onCancel()
OpenEditorFailed(calls) == Append(calls, "onCancel")

(***************************************************************************)
(* Crop geometry of a pointer move                                         *)
(***************************************************************************)
\* the resize without the image-bound clamp of the east and south edges
ResizeRectUnbounded(handle, s, dx, dy, cur, W, H) ==
  LET west == Max(0, Min(s.x + dx, s.x + s.width - MIN_SIZE))
      north == Max(0, Min(s.y + dy, s.y + s.height - MIN_SIZE))
      east == Max(MIN_SIZE, s.width + dx)
      south == Max(MIN_SIZE, s.height + dy)
  IN  CASE handle = "nw" -> [x |-> west, y |-> north,
                             width |-> s.width - (west - s.x),
                             height |-> s.height - (north - s.y)]
        [] handle = "ne" -> [x |-> cur.x, y |-> north, width |-> east,
                             height |-> s.height - (north - s.y)]
        [] handle = "sw" -> [x |-> west, y |-> cur.y,
                             width |-> s.width - (west - s.x), height |-> south]
        [] handle = "se" -> [x |-> cur.x, y |-> cur.y, width |-> east, height |-> south]
        [] handle = "n" -> [x |-> cur.x, y |-> north, width |-> cur.width,
                            height |-> s.height - (north - s.y)]
        [] handle = "s" -> [x |-> cur.x, y |-> cur.y, width |-> cur.width, height |-> south]
        [] handle = "e" -> [x |-> cur.x, y |-> cur.y, width |-> east, height |-> cur.height]
        [] handle = "w" -> [x |-> west, y |-> cur.y,
                            width |-> s.width - (west - s.x), height |-> cur.height]
        [] OTHER -> cur

\* the resize whose west and north handles drag the rectangle instead of its edge
ResizeRectDragsEdge(handle, s, dx, dy, cur, W, H) ==
  LET west == Max(0, Min(s.x + dx, s.x + s.width - MIN_SIZE))
      north == Max(0, Min(s.y + dy, s.y + s.height - MIN_SIZE))
      east == Max(MIN_SIZE, Min(s.width + dx, W - s.x))
      south == Max(MIN_SIZE, Min(s.height + dy, H - s.y))
  IN  CASE handle = "nw" -> [x |-> west, y |-> north, width |-> s.width, height |-> s.height]
        [] handle = "ne" -> [x |-> cur.x, y |-> north, width |-> east, height |-> s.height]
        [] handle = "sw" -> [x |-> west, y |-> cur.y, width |-> s.width, height |-> south]
        [] handle = "se" -> [x |-> cur.x, y |-> cur.y, width |-> east, height |-> south]
        [] handle = "n" -> [x |-> cur.x, y |-> north, width |-> cur.width, height |-> s.height]
        [] handle = "s" -> [x |-> cur.x, y |-> cur.y, width |-> cur.width, height |-> south]
        [] handle = "e" -> [x |-> cur.x, y |-> cur.y, width |-> east, height |-> cur.height]
        [] handle = "w" -> [x |-> west, y |-> cur.y, width |-> s.width, height |-> cur.height]
        [] OTHER -> cur

\* the resize that grows the east and south edges from the current rectangle instead
\* of the one captured at pointer-down
ResizeRectFromCurrent(handle, s, dx, dy, cur, W, H) ==
  LET west == Max(0, Min(s.x + dx, s.x + s.width - MIN_SIZE))
      north == Max(0, Min(s.y + dy, s.y + s.height - MIN_SIZE))
      east == Max(MIN_SIZE, Min(cur.width + dx, W - s.x))
      south == Max(MIN_SIZE, Min(cur.height + dy, H - s.y))
  IN  CASE handle = "nw" -> [x |-> west, y |-> north,
                             width |-> s.width - (west - s.x),
                             height |-> s.height - (north - s.y)]
        [] handle = "ne" -> [x |-> cur.x, y |-> north, width |-> east,
                             height |-> s.height - (north - s.y)]
        [] handle = "sw" -> [x |-> west, y |-> cur.y,
                             width |-> s.width - (west - s.x), height |-> south]
        [] handle = "se" -> [x |-> cur.x, y |-> cur.y, width |-> east, height |-> south]
        [] handle = "n" -> [x |-> cur.x, y |-> north, width |-> cur.width,
                            height |-> s.height - (north - s.y)]
        [] handle = "s" -> [x |-> cur.x, y |-> cur.y, width |-> cur.width, height |-> south]
        [] handle = "e" -> [x |-> cur.x, y |-> cur.y, width |-> east, height |-> cur.height]
        [] handle = "w" -> [x |-> west, y |-> cur.y,
                            width |-> s.width - (west - s.x), height |-> cur.height]
        [] OTHER -> cur

\* onCropDrag's switch over the handle: s is cropStartState, cur the crop in this.state
ResizeRect(handle, s, dx, dy, cur, W, H) ==
  LET west == Max(0, Min(s.x + dx, s.x + s.width - MIN_SIZE))
      north == Max(0, Min(s.y + dy, s.y + s.height - MIN_SIZE))
      east == Max(MIN_SIZE, Min(s.width + dx, W - s.x))
      south == Max(MIN_SIZE, Min(s.height + dy, H - s.y))
  IN  CASE handle = "nw" -> [x |-> west, y |-> north,
                             width |-> s.width - (west - s.x),
                             height |-> s.height - (north - s.y)]
        [] handle = "ne" -> [x |-> cur.x, y |-> north, width |-> east,
                             height |-> s.height - (north - s.y)]
        [] handle = "sw" -> [x |-> west, y |-> cur.y,
                             width |-> s.width - (west - s.x), height |-> south]
        [] handle = "se" -> [x |-> cur.x, y |-> cur.y, width |-> east, height |-> south]
        [] handle = "n" -> [x |-> cur.x, y |-> north, width |-> cur.width,
                            height |-> s.height - (north - s.y)]
        [] handle = "s" -> [x |-> cur.x, y |-> cur.y, width |-> cur.width, height |-> south]
        [] handle = "e" -> [x |-> cur.x, y |-> cur.y, width |-> east, height |-> cur.height]
        [] handle = "w" -> [x |-> west, y |-> cur.y,
                            width |-> s.width - (west - s.x), height |-> cur.height]
        [] OTHER -> cur

\* the move without the clamp to the image
MoveRectUnclamped(s, dx, dy, cur, W, H) ==
  [x |-> s.x + dx, y |-> s.y + dy, width |-> cur.width, height |-> cur.height]

\* onCropDrag's move branch
MoveRect(s, dx, dy, cur, W, H) ==
  [x |-> Max(0, Min(s.x + dx, W - cur.width)),
   y |-> Max(0, Min(s.y + dy, H - cur.height)),
   width |-> cur.width, height |-> cur.height]

\* onCropDrag for a pointer whose natural delta from dragStartPos is (dx, dy)
OnCropDrag(m, dx, dy) ==
  IF ~isDraggingCrop \/ m.image = NoImage THEN m
  ELSE LET cur == RectOf(m.state)
           r == IF dragType = "handle" /\ dragHandleType # "none"
                THEN ResizeRect(dragHandleType, cropStartState, dx, dy, cur,
                                m.image.w, m.image.h)
                ELSE IF dragType = "move"
                THEN MoveRect(cropStartState, dx, dy, cur, m.image.w, m.image.h)
                ELSE cur
           shown == Render([m EXCEPT !.state = WithRect(@, r)])
       IN  IF shown.cropMode THEN UpdateCropOverlay(shown) ELSE shown

\* MultiScan.onCropDrag's move branch, before updateCropOverlay; cur is this.cropState
MsMoveRect(s, dx, dy, cur, W, H) ==
  [x |-> Max(0, Min(s.x + dx, W - cur.width)),
   y |-> Max(0, Min(s.y + dy, H - cur.height)),
   width |-> cur.width, height |-> cur.height]

\* MultiScan.onCropDrag's resize branch, before updateCropOverlay
MsResizeRect(handle, s, dx, dy, W, H) ==
  LET west == Max(0, Min(s.x + dx, s.x + s.width - MIN_SIZE))
      north == Max(0, Min(s.y + dy, s.y + s.height - MIN_SIZE))
      east == Max(MIN_SIZE, Min(s.width + dx, W - s.x))
      south == Max(MIN_SIZE, Min(s.height + dy, H - s.y))
      r == CASE handle = "nw" -> [x |-> west, y |-> north,
                                  width |-> s.width - (west - s.x),
                                  height |-> s.height - (north - s.y)]
             [] handle = "ne" -> [x |-> s.x, y |-> north, width |-> east,
                                  height |-> s.height - (north - s.y)]
             [] handle = "sw" -> [x |-> west, y |-> s.y,
                                  width |-> s.width - (west - s.x), height |-> south]
             [] handle = "se" -> [x |-> s.x, y |-> s.y, width |-> east, height |-> south]
             [] handle = "n" -> [x |-> s.x, y |-> north, width |-> s.width,
                                 height |-> s.height - (north - s.y)]
             [] handle = "s" -> [x |-> s.x, y |-> s.y, width |-> s.width, height |-> south]
             [] handle = "e" -> [x |-> s.x, y |-> s.y, width |-> east, height |-> s.height]
             [] handle = "w" -> [x |-> west, y |-> s.y,
                                 width |-> s.width - (west - s.x), height |-> s.height]
             [] OTHER -> s
      newX == Max(0, Min(r.x, W - MIN_SIZE))
      newY == Max(0, Min(r.y, H - MIN_SIZE))
  IN  [x |-> newX, y |-> newY,
       width |-> Max(MIN_SIZE, Min(r.width, W - newX)),
       height |-> Max(MIN_SIZE, Min(r.height, H - newY))]


(***************************************************************************)
(* Methods of MultiScan.  A page is its id and the content tag of its      *)
(* file; ids come from crypto.randomUUID(), modelled as a counter.         *)
(***************************************************************************)
NoToast == [message |-> "", type |-> "none"]
NoPdf == [ok |-> FALSE, message |-> "", pages |-> <<>>]

\* cropState as the file whose natural size it was initialised to (0: the constructor's
\* zero rectangle)
NoCrop == [base |-> 0]
\* no applyCrop or applyRotation has settled
NoApply == [kind |-> "none", page |-> 0, src |-> 0, base |-> 0, entered |-> 0, rotation |-> 0]

\* the object after `new MultiScan(config)`: render() mounts the container and updateUI
\* creates the Sortable; evt holds the arguments of the last reorder, delete or
\* direct conversion, pdf the outcome of the last direct call of imagesToPdf; entered is
\* the id of the page that was selected when the edit mode was entered, applying the
\* applyCrop / applyRotation calls that are awaiting, applied the last one that settled
NewMultiScan(max) ==
  [maxImages |-> max, images |-> <<>>, currentImageIndex |-> 0,
   sortableInstance |-> TRUE, container |-> TRUE,
   cameraOpen |-> FALSE, loader |-> FALSE, composing |-> <<>>,
   onDone |-> <<>>, toast |-> NoToast, nextId |-> 1, evt |-> <<>>, pdf |-> NoPdf,
   editMode |-> "none", rotation |-> 0, cropState |-> NoCrop, entered |-> 0,
   applying |-> <<>>, applied |-> NoApply]

ShowToast(s, message, type) == [s EXCEPT !.toast = [message |-> message, type |-> type]]

\* updateUI ends in renderThumbnails, which replaces the Sortable when the container is mounted
\* (the edit toolbar has no thumbnail container: renderThumbnails returns at once)
UpdateUI(s) ==
  IF s.container /\ s.editMode = "none" THEN [s EXCEPT !.sortableInstance = TRUE] ELSE s

\* Array.prototype.splice(i, 1) and splice(i, 0, x), on 0-based positions
RemoveAt(seq, i) == SubSeq(seq, 1, i) \o SubSeq(seq, i + 2, Len(seq))
InsertAt(seq, i, x) ==
  LET k == Min(i, Len(seq))
  IN  SubSeq(seq, 1, k) \o <<x>> \o SubSeq(seq, k + 1, Len(seq))

\* addPage without the limit check
AddPageUnlimited(s) == [s EXCEPT !.cameraOpen = TRUE]

AddPage(s) ==
  LET maxImages == OrElse(s.maxImages, DEFAULT_MAX_IMAGES)
  IN  IF Len(s.images) >= maxImages
      THEN ShowToast(s, "Maximum pages allowed", "error")
      ELSE [s EXCEPT !.cameraOpen = TRUE]

HandleImageCapture(s, file) ==
  LET imageFile == [id |-> s.nextId, file |-> file]
      accepted == [s EXCEPT !.images = Append(@, imageFile), !.nextId = @ + 1]
  IN  UpdateUI([accepted EXCEPT !.currentImageIndex = Len(accepted.images) - 1])

\* a thumbnail's click listener
SelectThumbnail(s, index) == UpdateUI([s EXCEPT !.currentImageIndex = index])

\* the reorder that moves the page and leaves currentImageIndex alone
SortableOnEndKeepsIndex(s, oldIndex, newIndex) ==
  LET moved == s.images[oldIndex + 1]
  IN  UpdateUI([s EXCEPT !.images = InsertAt(RemoveAt(s.images, oldIndex), newIndex, moved)])

\* the Sortable's onEnd
SortableOnEnd(s, oldIndex, newIndex) ==
  LET moved == s.images[oldIndex + 1]
      cur == s.currentImageIndex
      idx == IF cur = oldIndex THEN newIndex
             ELSE IF oldIndex < cur /\ newIndex >= cur THEN cur - 1
             ELSE IF oldIndex > cur /\ newIndex <= cur THEN cur + 1
             ELSE cur
  IN  UpdateUI([s EXCEPT !.images = InsertAt(RemoveAt(s.images, oldIndex), newIndex, moved),
                         !.currentImageIndex = idx])

\* the delete that never moves currentImageIndex
DeletePageKeepsIndex(s, index) ==
  IF index < 0 \/ index >= Len(s.images) THEN s
  ELSE ShowToast(UpdateUI([s EXCEPT !.images = RemoveAt(s.images, index)]),
                 "Page deleted", "success")

DeletePageByIndex(s, index) ==
  IF index < 0 \/ index >= Len(s.images) THEN s
  ELSE LET rest == RemoveAt(s.images, index)
           idx == IF Len(rest) = 0 THEN 0
                  ELSE IF s.currentImageIndex >= Len(rest) THEN Len(rest) - 1
                  ELSE s.currentImageIndex
       IN  ShowToast(UpdateUI([s EXCEPT !.images = rest, !.currentImageIndex = idx]),
                     "Page deleted", "success")

DeleteCurrentPage(s) ==
  IF Len(s.images) = 0 THEN s ELSE DeletePageByIndex(s, s.currentImageIndex)

\* the File an edit makes of a file: `new File([blob], currentImage.file.name, ...)`
EditedFile(file) == file + EDITED

\* cropImage: the crop is initialised to the natural size of the preview image, which
\* shows the selected page
CropImage(s) ==
  IF Len(s.images) = 0 THEN s
  ELSE LET page == s.images[s.currentImageIndex + 1]
       IN  [s EXCEPT !.editMode = "crop", !.cropState = [base |-> page.file],
                     !.entered = page.id]

RotateImage(s) ==
  IF Len(s.images) = 0 THEN s
  ELSE [s EXCEPT !.editMode = "rotate", !.rotation = 0,
                 !.entered = s.images[s.currentImageIndex + 1].id]

\* handleRotate: `%` of a negative sum is negative, and 360 is then added
HandleRotate(s, angle) == [s EXCEPT !.rotation = (s.rotation + angle + 360) % 360]

\* cancelEdit; restoreToolbar ends in updateUI
CancelEdit(s) == UpdateUI([s EXCEPT !.rotation = 0, !.editMode = "none"])

\* applyCrop / applyRotation up to `await this.loadImage(currentImage.file)`:
\* currentImage is this.images[this.currentImageIndex] at the time of the call
MsApply(s, kind) ==
  IF s.currentImageIndex + 1 \in 1..Len(s.images)
  THEN LET page == s.images[s.currentImageIndex + 1]
       IN  [s EXCEPT !.applying = Append(@, [kind |-> kind, page |-> page.id,
                                              src |-> page.file, entered |-> s.entered])]
  ELSE ShowToast(s, "Failed to " \o kind \o " image", "error")

\* applyCrop / applyRotation after their awaits, for the i-th outstanding call: the
\* captured page object receives the new file, whether or not it is still in the list
MsApplySettled(s, i, ok) ==
  LET t == s.applying[i]
      rest == [s EXCEPT !.applying = SubSeq(@, 1, i - 1) \o SubSeq(@, i + 1, Len(@))]
  IN  IF ~ok THEN ShowToast(rest, "Failed to " \o t.kind \o " image", "error")
      ELSE LET edited == [rest EXCEPT
                            !.images = [k \in 1..Len(@) |->
                                          IF @[k].id = t.page
                                          THEN [@[k] EXCEPT !.file = EditedFile(t.src)]
                                          ELSE @[k]],
                            !.applied = [kind |-> t.kind, page |-> t.page, src |-> t.src,
                                         base |-> IF t.kind = "crop" THEN s.cropState.base ELSE 0,
                                         entered |-> t.entered,
                                         rotation |-> IF t.kind = "rotate" THEN s.rotation ELSE 0],
                            !.rotation = IF t.kind = "rotate" THEN 0 ELSE @,
                            !.editMode = "none"]
           IN  UpdateUI(ShowToast(edited, IF t.kind = "crop" THEN "Image cropped"
                                          ELSE "Image rotated", "success"))

\* imagesToPdf; bad is the number of the first file that cannot be decoded, 0 for none
\* `new jsPDF(...)`: a document of one empty page; a page is the sequence of the
\* images drawn on it
NewPdf == << <<>> >>

\* the loop that calls pdf.addPage() for every image, the first included
RECURSIVE AddImagesPagePerImage(_, _, _)
AddImagesPagePerImage(files, i, pdf) ==
  IF i > Len(files) THEN pdf
  ELSE LET paged == Append(pdf, <<>>)
       IN  AddImagesPagePerImage(files, i + 1,
                                 [paged EXCEPT ![Len(paged)] = Append(@, files[i])])

\* the loop of imagesToPdf from image i on: addPage() for images after the first, then
\* addImage on the document's current (last) page
RECURSIVE AddImages(_, _, _)
AddImages(files, i, pdf) ==
  IF i > Len(files) THEN pdf
  ELSE LET paged == IF i > 1 THEN Append(pdf, <<>>) ELSE pdf
       IN  AddImages(files, i + 1, [paged EXCEPT ![Len(paged)] = Append(@, files[i])])

\* imagesToPdf; bad is the position of the first file that fails to load (0: none)
ImagesToPdf(files, bad) ==
  IF Len(files) = 0
  THEN [ok |-> FALSE, message |-> "No files provided for PDF conversion", pages |-> <<>>]
  ELSE IF bad \in 1..Len(files)
  THEN [ok |-> FALSE, message |-> "Failed to process image", pages |-> <<>>]
  ELSE [ok |-> TRUE, message |-> "", pages |-> AddImages(files, 1, NewPdf)]

Cleanup(s) ==
  [s EXCEPT !.images = <<>>, !.sortableInstance = FALSE, !.container = FALSE]

\* handleDone that starts the composition without looking at the page list
HandleDoneNoGuard(s) ==
  [s EXCEPT !.loader = TRUE,
            !.composing = Append(@, [i \in 1..Len(s.images) |-> s.images[i].file])]

\* handleDone up to `await imagesToPdf(...)`
HandleDone(s) ==
  IF Len(s.images) = 0
  THEN ShowToast(s, "Please add at least one page", "error")
  ELSE [s EXCEPT !.loader = TRUE,
                 !.composing = Append(@, [i \in 1..Len(s.images) |-> s.images[i].file])]

\* the settling that tears the session down whatever the result
ComposeSettledAlwaysCleans(s, result, thrown) ==
  LET hidden == [s EXCEPT !.loader = Len(s.composing) > 1, !.composing = Tail(@)]
      called == [hidden EXCEPT !.onDone = Append(@, result.pages)]
  IN  IF ~result.ok THEN Cleanup(ShowToast(hidden, result.message, "error"))
      ELSE IF thrown THEN Cleanup(ShowToast(called, "onDone failed", "error"))
      ELSE Cleanup(called)

\* the settling that hands a failed composition to onDone as an empty document
ComposeSettledReportsDone(s, result, thrown) ==
  LET hidden == [s EXCEPT !.loader = Len(s.composing) > 1, !.composing = Tail(@)]
      called == [hidden EXCEPT !.onDone = Append(@, result.pages)]
  IN  IF ~result.ok THEN ShowToast(called, result.message, "error")
      ELSE IF thrown THEN ShowToast(called, "onDone failed", "error")
      ELSE Cleanup(called)

\* handleDone after the await: the try's continuation, or the catch, which is
\* also where an exception thrown by config.onDone lands; every handleDone that
\* awaits has added a loader element, and hideLoader removes one of them
ComposeSettled(s, result, thrown) ==
  LET hidden == [s EXCEPT !.loader = Len(s.composing) > 1, !.composing = Tail(@)]
      called == [hidden EXCEPT !.onDone = Append(@, result.pages)]
  IN  IF ~result.ok THEN ShowToast(hidden, result.message, "error")
      ELSE IF thrown THEN ShowToast(called, "onDone failed", "error")
      ELSE Cleanup(called)

(***************************************************************************)
(* Binary floating point, as the arithmetic of `number`: a value is m * 2^e *)
(* with m = 0 or a mantissa of exactly Precision bits, and every operation *)
(* rounds its exact result to the nearest such value, ties to even.  The   *)
(* source's doubles have 53 bits; the model keeps the rounding and a       *)
(* shorter mantissa.  Only values >= 0 occur.                              *)
(***************************************************************************)
RECURSIVE Pow2(_)
Pow2(k) == IF k <= 0 THEN 1 ELSE 2 * Pow2(k - 1)

\* the number of bits of n
RECURSIVE Bits(_)
Bits(n) == IF n = 0 THEN 0 ELSE 1 + Bits(n \div 2)

\* n * 2^e rounded to Precision bits
Fl(n, e) ==
  IF n = 0 THEN [m |-> 0, e |-> 0]
  ELSE LET b == Bits(n)
       IN  IF b <= Precision
           THEN [m |-> n * Pow2(Precision - b), e |-> e - (Precision - b)]
           ELSE LET k == b - Precision
                    q == n \div Pow2(k)
                    r == n % Pow2(k)
                    half == Pow2(k - 1)
                    up == IF r > half \/ (r = half /\ q % 2 = 1) THEN q + 1 ELSE q
                IN  IF up = Pow2(Precision)
                    THEN [m |-> Pow2(Precision - 1), e |-> e + k + 1]
                    ELSE [m |-> up, e |-> e + k]

\* the mantissa of a when written with exponent e (e no larger than a.e)
Scaled(a, e) == a.m * Pow2(a.e - e)

FlInt(n) == Fl(n, 0)
FlMul(a, b) == Fl(a.m * b.m, a.e + b.e)
\* a / b for b > 0: the quotient to Precision + 3 bits, the last one sticky
FlDiv(a, b) ==
  LET n == a.m * Pow2(Precision + 2)
  IN  Fl(2 * (n \div b.m) + (IF n % b.m = 0 THEN 0 ELSE 1), a.e - b.e - Precision - 3)
\* a - b for a >= b
FlSub(a, b) ==
  LET e == Min(a.e, b.e)
  IN  Fl(Scaled(a, e) - Scaled(b, e), e)
FlLess(a, b) ==
  LET e == Min(a.e, b.e)
  IN  Scaled(a, e) < Scaled(b, e)
FlMin(a, b) == IF FlLess(b, a) THEN b ELSE a

\* calculateFitDimensions without the 1 in Math.min: small images are scaled up
CalculateFitDimensionsScalesUp(imgWidth, imgHeight, pageWidth, pageHeight, margin) ==
  LET maxWidth == FlSub(pageWidth, FlMul(margin, FlInt(2)))
      maxHeight == FlSub(pageHeight, FlMul(margin, FlInt(2)))
      widthRatio == FlDiv(maxWidth, imgWidth)
      heightRatio == FlDiv(maxHeight, imgHeight)
      ratio == FlMin(widthRatio, heightRatio)
      width == FlMul(imgWidth, ratio)
      height == FlMul(imgHeight, ratio)
  IN  [width |-> width, height |-> height,
       x |-> FlDiv(FlSub(pageWidth, width), FlInt(2)),
       y |-> FlDiv(FlSub(pageHeight, height), FlInt(2))]

CalculateFitDimensions(imgWidth, imgHeight, pageWidth, pageHeight, margin) ==
  LET maxWidth == FlSub(pageWidth, FlMul(margin, FlInt(2)))
      maxHeight == FlSub(pageHeight, FlMul(margin, FlInt(2)))
      widthRatio == FlDiv(maxWidth, imgWidth)
      heightRatio == FlDiv(maxHeight, imgHeight)
      ratio == FlMin(FlMin(widthRatio, heightRatio), FlInt(1))
      width == FlMul(imgWidth, ratio)
      height == FlMul(imgHeight, ratio)
  IN  [width |-> width, height |-> height,
       x |-> FlDiv(FlSub(pageWidth, width), FlInt(2)),
       y |-> FlDiv(FlSub(pageHeight, height), FlInt(2))]

\* the arguments of one call of calculateFitDimensions, and its result once made
FitCall(imgWidth, imgHeight, pageWidth, pageHeight, margin) ==
  [done |-> FALSE, imgWidth |-> imgWidth, imgHeight |-> imgHeight,
   pageWidth |-> pageWidth, pageHeight |-> pageHeight, margin |-> margin,
   width |-> FlInt(0), height |-> FlInt(0), x |-> FlInt(0), y |-> FlInt(0)]

\* no page-fit computation is under way
FitIdle == FitCall(0, 0, 0, 0, 0)

(***************************************************************************)
(* Methods of QrUpload.  Of the configuration the model keeps the fields   *)
(* the guarded methods read; pollingInterval (the field) is the period of  *)
(* the armed interval timer, 0 for null.  A method maps the object to the  *)
(* object after the call, with the call's outcome in `result`.             *)
(***************************************************************************)
DefaultConfig == [useNativeCamera |-> TRUE, enablePolling |-> FALSE,
                  pollingInterval |-> DEFAULT_POLLING_INTERVAL, uploadUrl |-> FALSE,
                  maxImages |-> 1]

NoResult == [method |-> "none", threw |-> FALSE, value |-> "none"]

\* no submitImages call has ended
NoSubmit == [n |-> 0, start |-> <<>>, attempted |-> <<>>, succeeded |-> <<>>,
             failed |-> <<>>, files |-> <<>>, before |-> <<>>, aborted |-> FALSE]

\* the object after `new QrUpload(config)`: images are records [id, file, status];
\* uploads lists the files uploadImage was called with, submits the submitImages
\* calls that are awaiting an upload, submitted describes the call that ended last;
\* handlers holds the file of each change event of the native file input (the
\* currentFile of the listeners it registered), ticks the accept handlers that
\* are awaiting their upload; onUploadImageSuccess, onError, onImageAccept and
\* onImageReject record the calls of the host's callbacks
NewQrUpload(config) ==
  [isInitialized |-> FALSE, config |-> config, container |-> FALSE,
   videoElement |-> FALSE, nativeCameraInput |-> FALSE, mediaStream |-> FALSE,
   isPolling |-> FALSE, pollingInterval |-> 0, result |-> NoResult,
   images |-> <<>>, nextFile |-> 1, uploads |-> <<>>, submits |-> <<>>,
   onUploadImageSuccess |-> <<>>, onError |-> 0, submitted |-> NoSubmit,
   previewOverlay |-> FALSE, handlers |-> <<>>, ticks |-> <<>>,
   onImageAccept |-> <<>>, onImageReject |-> 0]

Returned(s, method, value) ==
  [s EXCEPT !.result = [method |-> method, threw |-> FALSE, value |-> value]]
Threw(s, method) ==
  [s EXCEPT !.result = [method |-> method, threw |-> TRUE, value |-> "none"]]

\* ensureInitialized: whether the call throws; it logs to the console and returns
EnsureInitializedThrows(s) == FALSE

SdkInit(s, config) == Returned([s EXCEPT !.config = config, !.isInitialized = TRUE], "init", "none")

\* startCamera; granted is the outcome of getUserMedia
SdkStartCamera(s, granted) ==
  IF EnsureInitializedThrows(s) THEN Threw(s, "startCamera")
  ELSE IF granted THEN Returned([s EXCEPT !.mediaStream = TRUE], "startCamera", "none")
  ELSE Threw(s, "startCamera")

SdkStopCamera(s) ==
  IF EnsureInitializedThrows(s) THEN Threw(s, "stopCamera")
  ELSE Returned([s EXCEPT !.mediaStream = FALSE], "stopCamera", "none")

\* mount; onRoute is whether the page's path is the SDK route, granted the outcome of
\* the getUserMedia of the startCamera() it calls without awaiting
SdkMount(s, onRoute, granted) ==
  IF EnsureInitializedThrows(s) THEN Threw(s, "mount")
  ELSE LET mounted == [s EXCEPT !.container = TRUE]
       IN  Returned(IF ~onRoute THEN mounted
                    ELSE IF s.config.useNativeCamera
                    THEN [mounted EXCEPT !.nativeCameraInput = TRUE]
                    ELSE [mounted EXCEPT !.videoElement = TRUE, !.mediaStream = granted],
                    "mount", "none")

\* captureImage; ok is whether the canvas context and the JPEG blob were obtained
SdkCaptureImage(s, ok) ==
  IF EnsureInitializedThrows(s) THEN Threw(s, "captureImage")
  ELSE IF ~s.videoElement \/ ~ok THEN Threw(s, "captureImage")
  ELSE Returned(s, "captureImage", "blob")

\* uploadImage; ok is response.ok
SdkUploadImage(s, ok) ==
  IF EnsureInitializedThrows(s) THEN Threw(s, "uploadImage")
  ELSE IF ~s.config.uploadUrl \/ ~ok THEN Threw(s, "uploadImage")
  ELSE Returned(s, "uploadImage", "json")

SdkGenerateQrCode(s) ==
  IF EnsureInitializedThrows(s) THEN Threw(s, "generateQrCode")
  ELSE Returned(s, "generateQrCode", "qr")

SdkStartPolling(s) ==
  IF EnsureInitializedThrows(s) THEN Threw(s, "startPolling")
  ELSE IF s.isPolling THEN Returned(s, "startPolling", FALSE)
  ELSE Returned([s EXCEPT !.isPolling = TRUE,
                          !.pollingInterval = OrElse(s.config.pollingInterval,
                                                     DEFAULT_POLLING_INTERVAL)],
                "startPolling", TRUE)

SdkStopPolling(s) ==
  IF EnsureInitializedThrows(s) THEN Threw(s, "stopPolling")
  ELSE IF ~s.isPolling \/ s.pollingInterval = 0 THEN Returned(s, "stopPolling", FALSE)
  ELSE Returned([s EXCEPT !.isPolling = FALSE, !.pollingInterval = 0], "stopPolling", TRUE)

SdkIsPollingActive(s) ==
  IF EnsureInitializedThrows(s) THEN Threw(s, "isPollingActive")
  ELSE Returned(s, "isPollingActive", s.config.enablePolling)

SdkSetPollingEnabled(s, enabled) ==
  IF EnsureInitializedThrows(s) THEN Threw(s, "setPollingEnabled")
  ELSE IF s.config.enablePolling = enabled THEN Returned(s, "setPollingEnabled", "none")
  ELSE LET set == [s EXCEPT !.config.enablePolling = enabled]
       IN  Returned(IF enabled THEN SdkStartPolling(set) ELSE SdkStopPolling(set),
                    "setPollingEnabled", "none")

SdkSetPollingInterval(s, interval) ==
  IF EnsureInitializedThrows(s) THEN Threw(s, "setPollingInterval")
  ELSE LET set == [s EXCEPT !.config.pollingInterval = Max(interval, MIN_POLLING_INTERVAL)]
       IN  Returned(IF s.pollingInterval # 0 THEN SdkStartPolling(SdkStopPolling(set)) ELSE set,
                    "setPollingInterval", "none")

\* unmount: stopCamera, stopPolling, and the container is emptied and dropped
SdkUnmount(s) ==
  Returned([SdkStopPolling(SdkStopCamera(s)) EXCEPT !.container = FALSE], "unmount", "none")

(***************************************************************************)
(* Handlers as actions                                                     *)
(***************************************************************************)
Pre == [len |-> Len(history), historyIndex |-> historyIndex, image |-> image]
\* stage "undone": the last user operations were `undos` effective undos in a row;
\* "redone": one redo followed them.  image and state are those before the last undo.
NoRt == [stage |-> "none", undos |-> 0, image |-> NoImage, state |-> InitialState]
\* no second pointer move of the session was delivered
NoSecond == [kind |-> "none", dx |-> 0, dy |-> 0, single |-> ZeroRect, multi |-> ZeroRect]
GeoIdle == [done |-> FALSE, W |-> 0, H |-> 0, handle |-> "none", start |-> ZeroRect,
            dx |-> 0, dy |-> 0, cropMode |-> FALSE,
            single |-> ZeroRect, multi |-> ZeroRect,
            moved |-> FALSE, singleMove |-> ZeroRect, multiMove |-> ZeroRect,
            second |-> NoSecond]

Observe(name) ==
  IF name = "undo" /\ historyIndex > 0
  THEN [stage |-> "undone",
        undos |-> IF rt.stage = "undone" THEN Min(rt.undos + 1, 3) ELSE 1,
        image |-> image, state |-> state]
  ELSE IF name = "redo" /\ historyIndex < Len(history) - 1 /\ rt.stage = "undone"
  THEN [rt EXCEPT !.stage = "redone"]
  ELSE NoRt

\* a handler run by a user gesture; `steps` and `toggles` are set by the next-state relation
User(name, m) ==
  /\ phase = "ready"
  /\ Commit(m)
  /\ op' = name
  /\ pre' = Pre
  /\ rt' = Observe(name)
  /\ UNCHANGED <<phase, geo, savedFiles, saving, callbacks, scan, sdk, fit>>

\* a handler run by a timer or by the completion of an image load
Async(name, m) ==
  /\ phase = "ready"
  /\ Commit(m)
  /\ op' = name
  /\ pre' = Pre
  /\ UNCHANGED <<phase, geo, rt, steps, toggles, savedFiles, saving, callbacks, scan, sdk, fit>>

DoToggleFlip(type) ==
  /\ User("toggleFlip", ToggleFlip(Cur, type))
  /\ UNCHANGED <<dragv, rotationTimeout>>

DoRotationInput(value) ==
  /\ User("rotationInput", RotationInput(Cur, value))
  /\ rotationTimeout' = TRUE
  /\ UNCHANGED dragv

RotationTimeoutFired ==
  /\ rotationTimeout
  /\ Async("rotationTimeout", SaveState(Cur))
  /\ rotationTimeout' = FALSE
  /\ UNCHANGED dragv

DoSwitchTab(tab) ==
  /\ User("switchTab", SwitchTab(Cur, tab))
  /\ UNCHANGED <<dragv, rotationTimeout>>

DoResetCrop ==
  /\ User("resetCrop", ResetCropToFullImage(Cur))
  /\ UNCHANGED <<dragv, rotationTimeout>>

DoApplyCrop ==
  /\ Len(pendingLoads) < MaxPending
  /\ User("applyCrop", ApplyCrop(Cur))
  /\ UNCHANGED <<dragv, rotationTimeout>>

DoUndo ==
  /\ Len(pendingLoads) < MaxPending
  /\ User("undo", Undo(Cur))
  /\ UNCHANGED <<dragv, rotationTimeout>>

DoRedo ==
  /\ Len(pendingLoads) < MaxPending
  /\ User("redo", Redo(Cur))
  /\ UNCHANGED <<dragv, rotationTimeout>>

DoResetAll ==
  /\ User("resetAll", ResetAll(Cur))
  /\ UNCHANGED <<dragv, rotationTimeout>>

\* pointer-down on a handle of the (visible) crop overlay
StartCropDrag(handle) ==
  /\ overlayShown
  /\ User("startCropDrag", Cur)
  /\ isDraggingCrop' = TRUE
  /\ dragType' = "handle"
  /\ dragHandleType' = handle
  /\ cropStartState' = RectOf(state)
  /\ dragFrom' = [image |-> image, imageScale |-> imageScale]
  /\ UNCHANGED rotationTimeout

\* pointer-down inside the (visible) crop overlay
StartCropMove ==
  /\ overlayShown
  /\ User("startCropMove", Cur)
  /\ IF image = NoImage
     THEN UNCHANGED dragv
     ELSE /\ isDraggingCrop' = TRUE
          /\ dragType' = "move"
          /\ cropStartState' = RectOf(state)
          /\ dragFrom' = [image |-> image, imageScale |-> imageScale]
          /\ UNCHANGED dragHandleType
  /\ UNCHANGED rotationTimeout

DoCropDrag(dx, dy) ==
  /\ User("onCropDrag", OnCropDrag(Cur, dx, dy))
  /\ UNCHANGED <<dragv, rotationTimeout>>

\* stopCropDrag without its `if (this.isDraggingCrop)`
StopCropDragAlwaysSaves ==
  /\ User("stopCropDrag", SaveState(Cur))
  /\ isDraggingCrop' = FALSE
  /\ dragType' = "none"
  /\ dragHandleType' = "none"
  /\ UNCHANGED <<cropStartState, dragFrom, rotationTimeout>>

\* pointer-up anywhere in the document
StopCropDrag ==
  /\ User("stopCropDrag", IF isDraggingCrop THEN SaveState(Cur) ELSE Cur)
  /\ IF isDraggingCrop
     THEN /\ isDraggingCrop' = FALSE
          /\ dragType' = "none"
          /\ dragHandleType' = "none"
          /\ UNCHANGED <<cropStartState, dragFrom>>
     ELSE UNCHANGED dragv
  /\ UNCHANGED rotationTimeout

\* the onload of one outstanding Image; loads may complete in any order
LoadCompleted(i) ==
  /\ i \in 1..Len(pendingLoads)
  /\ LET task == pendingLoads[i]
         rest == [Cur EXCEPT !.pendingLoads =
                    SubSeq(pendingLoads, 1, i - 1) \o SubSeq(pendingLoads, i + 1, Len(pendingLoads))]
     IN  IF task.kind = "crop"
         THEN Async("cropLoaded", CropLoaded(rest, task.img))
         ELSE Async("restoreLoaded", RestoreLoaded(rest, task.img))
  /\ UNCHANGED <<dragv, rotationTimeout>>

OverlayTimerFired ==
  /\ overlayTimers > 0
  /\ Async("overlayTimer", UpdateCropOverlay([Cur EXCEPT !.overlayTimers = @ - 1]))
  /\ UNCHANGED <<dragv, rotationTimeout>>

\* openEditor after `await this.loadImage(file)` resolved with a W x H bitmap
ImageLoaded(W, H) ==
  /\ phase = "loading"
  /\ LET img == [w |-> W, h |-> H, c |-> FileContent]
         opened == [Cur EXCEPT !.image = img, !.originalImage = img,
                               !.state = [@ EXCEPT !.cropX = 0, !.cropY = 0]]
         saved == SaveState(opened)
         ui == [saved EXCEPT !.cropMode = TRUE, !.canvas = BlankCanvas,
                             !.overlayShown = TRUE]
     IN  Commit(Render(CalculateFixedCanvasSize(ui)))
  /\ phase' = "ready"
  /\ op' = "openEditor"
  /\ pre' = Pre
  /\ UNCHANGED <<dragv, rotationTimeout, steps, toggles, rt, geo, savedFiles, saving, callbacks, scan, sdk, fit>>

\* openEditor's catch: the bitmap could not be decoded
ImageLoadFailed ==
  /\ phase = "loading"
  /\ phase' = "failed"
  /\ callbacks' = OpenEditorFailed(callbacks)
  /\ op' = "openEditorFailed"
  /\ Commit(Cur)
  /\ pre' = Pre
  /\ UNCHANGED <<dragv, rotationTimeout, steps, toggles, rt, geo, savedFiles, saving, scan, sdk, fit>>

\* handleSave up to `await new Promise(... toBlob ...)`: the final canvas is drawn and
\* its encoding is outstanding
DoSave ==
  /\ phase = "ready"
  /\ image # NoImage
  /\ Len(saving) < MaxSaving
  /\ saving' = Append(saving, HandleSave(Cur))
  /\ op' = "handleSave"
  /\ Commit(Cur)
  /\ pre' = Pre
  /\ rt' = NoRt
  /\ UNCHANGED <<phase, savedFiles, callbacks, dragv, rotationTimeout, geo, scan, sdk, fit>>

\* handleSave after the await: onSave receives the file and close() removes the overlay,
\* if it is still there
SaveEncoded ==
  /\ saving # <<>>
  /\ phase \in {"ready", "closed"}
  /\ saving' = Tail(saving)
  /\ savedFiles' = Append(savedFiles, Head(saving))
  /\ callbacks' = Append(callbacks, "onSave")
  /\ phase' = "closed"
  /\ op' = "saveEncoded"
  /\ Commit(Cur)
  /\ pre' = Pre
  /\ UNCHANGED <<rt, dragv, rotationTimeout, geo, scan, sdk, fit>>

\* handleSave's catch: neither encoding produced a blob; the editor stays as it is
SaveFailed ==
  /\ saving # <<>>
  /\ phase \in {"ready", "closed"}
  /\ saving' = Tail(saving)
  /\ op' = "handleSaveFailed"
  /\ Commit(Cur)
  /\ pre' = Pre
  /\ UNCHANGED <<phase, savedFiles, callbacks, rt, dragv, rotationTimeout, geo, scan, sdk, fit>>

\* handleCancel: onCancel, then close() removes the overlay
DoCancel ==
  /\ phase = "ready"
  /\ callbacks' = Append(callbacks, "onCancel")
  /\ phase' = "closed"
  /\ op' = "handleCancel"
  /\ Commit(Cur)
  /\ pre' = Pre
  /\ rt' = NoRt
  /\ UNCHANGED <<savedFiles, saving, dragv, rotationTimeout, geo, scan, sdk, fit>>

InitEditor ==
  /\ phase = "loading"
  /\ image = NoImage
  /\ originalImage = NoImage
  /\ state = InitialState
  /\ history = <<>>
  /\ historyIndex = -1
  /\ cropMode = FALSE
  /\ overlayShown = FALSE
  /\ canvas = NoImage
  /\ fixedCanvasWidth = ZeroFrac
  /\ fixedCanvasHeight = ZeroFrac
  /\ imageScale = OneFrac
  /\ isDraggingCrop = FALSE
  /\ dragType = "none"
  /\ dragHandleType = "none"
  /\ cropStartState = ZeroRect
  /\ dragFrom = [image |-> NoImage, imageScale |-> OneFrac]
  /\ pendingLoads = <<>>
  /\ overlayTimers = 0
  /\ rotationTimeout = FALSE
  /\ savedFiles = <<>>
  /\ saving = <<>>
  /\ callbacks = <<>>
  /\ op = "constructor"
  /\ steps = 0
  /\ toggles = 0
  /\ pushed = <<>>
  /\ pre = [len |-> 0, historyIndex |-> -1, image |-> NoImage]
  /\ rt = NoRt

Init ==
  /\ InitEditor
  /\ geo = GeoIdle
  /\ scan = NewMultiScan(0)
  /\ sdk = NewQrUpload(DefaultConfig)
  /\ fit = FitIdle

UserOp ==
  \/ \E type \in {"horizontal", "vertical"} : DoToggleFlip(type)
  \/ \E value \in Rotations : DoRotationInput(value)
  \/ \E tab \in {"rotation", "crop"} : DoSwitchTab(tab)
  \/ DoResetCrop
  \/ DoApplyCrop
  \/ DoUndo
  \/ DoRedo
  \/ DoResetAll
  \/ \E handle \in SessionHandles : StartCropDrag(handle)
  \/ StartCropMove
  \/ \E d \in SessionDeltas : DoCropDrag(d[1], d[2])
  \/ StopCropDrag

AsyncOp ==
  \/ \E i \in 1..MaxPending : LoadCompleted(i)
  \/ OverlayTimerFired
  \/ RotationTimeoutFired

Next ==
  \/ \E size \in ImageSizes : ImageLoaded(size[1], size[2])
  \/ ImageLoadFailed
  \/ steps < MaxSteps /\ steps' = steps + 1 /\ UNCHANGED toggles /\ UserOp
  \/ AsyncOp

Spec == Init /\ [][Next]_vars

(***************************************************************************)
(* SpecHistory: longer sessions made of the operations that write or walk  *)
(* the history without a drag session.                                     *)
(***************************************************************************)
HistoryOp ==
  \/ \E type \in {"horizontal", "vertical"} : DoToggleFlip(type)
  \/ \E value \in Rotations : DoRotationInput(value)
  \/ DoApplyCrop
  \/ DoUndo
  \/ DoRedo
  \/ DoResetAll

NextHistory ==
  \/ \E size \in ImageSizes : ImageLoaded(size[1], size[2])
  \/ steps < MaxHistorySteps /\ steps' = steps + 1 /\ UNCHANGED toggles /\ HistoryOp
  \/ AsyncOp

SpecHistory == Init /\ [][NextHistory]_vars


(***************************************************************************)
(* SpecCap: sessions that fill the history.  The horizontal flip toggle is *)
(* free; the other user operations are explored once the history holds    *)
(* NearCap entries.                                                        *)
(***************************************************************************)
CapFlip ==
  /\ toggles < MaxCapFlips
  /\ toggles' = toggles + 1
  /\ DoToggleFlip("horizontal")
  /\ UNCHANGED steps

NextCap ==
  \/ \E size \in ImageSizes : ImageLoaded(size[1], size[2])
  \/ CapFlip
  \/ steps < MaxCapOps /\ Len(history) >= NearCap /\ steps' = steps + 1 /\ UNCHANGED toggles
     /\ UserOp
  \/ AsyncOp

SpecCap == Init /\ [][NextCap]_vars

(***************************************************************************)
(* SpecSave: sessions of flips, rotations, crop drags and crop-apply that  *)
(* end with a save.                                                        *)
(***************************************************************************)
SaveRotations == { -180, -90, 45, 90, 180 }
SaveDeltas == { <<-100, -60>>, <<-2000, -2000>> }

SaveOp ==
  \/ \E type \in {"horizontal", "vertical"} : DoToggleFlip(type)
  \/ \E value \in SaveRotations : DoRotationInput(value)
  \/ StartCropDrag("se")
  \/ \E d \in SaveDeltas : DoCropDrag(d[1], d[2])
  \/ StopCropDrag
  \/ DoApplyCrop

NextSave ==
  \/ \E size \in ImageSizes : ImageLoaded(size[1], size[2])
  \/ steps < MaxSaveSteps /\ steps' = steps + 1 /\ UNCHANGED toggles /\ SaveOp
  \/ UNCHANGED <<steps, toggles>> /\ DoSave
  \/ UNCHANGED <<steps, toggles>> /\ SaveEncoded
  \/ UNCHANGED <<steps, toggles>> /\ SaveFailed
  \/ \E i \in 1..MaxPending : LoadCompleted(i)
  \/ RotationTimeoutFired

SpecSave == Init /\ [][NextSave]_vars

(***************************************************************************)
(* SpecClose: the ways a session ends: the load fails, the user cancels,   *)
(* a save is encoded or fails, in any order with a few parameter edits.    *)
(***************************************************************************)
CloseOp ==
  \/ \E type \in {"horizontal", "vertical"} : DoToggleFlip(type)
  \/ \E value \in Rotations : DoRotationInput(value)
  \/ DoResetCrop

NextClose ==
  \/ \E size \in ImageSizes : ImageLoaded(size[1], size[2])
  \/ ImageLoadFailed
  \/ steps < MaxCloseSteps /\ steps' = steps + 1 /\ UNCHANGED toggles /\ CloseOp
  \/ UNCHANGED <<steps, toggles>> /\ DoSave
  \/ UNCHANGED <<steps, toggles>> /\ SaveEncoded
  \/ UNCHANGED <<steps, toggles>> /\ SaveFailed
  \/ UNCHANGED <<steps, toggles>> /\ DoCancel
  \/ RotationTimeoutFired

SpecClose == Init /\ [][NextClose]_vars

(***************************************************************************)
(* SpecScan: multi-page sessions.  Adding pages is free until MaxPageIds   *)
(* ids are issued; the other operations are budgeted, and those that name  *)
(* a position are explored on lists of up to MaxOpPages pages.  The loader *)
(* covers the session's controls while a composition is outstanding, and   *)
(* the native camera has one request open at a time.                       *)
(***************************************************************************)
MaxImagesConfigs == { 0, 3 }
HostFiles == { <<>>, <<1>>, <<1, 2>>, <<2, 1>> }

Scan(name, s) ==
  /\ scan' = s
  /\ op' = name
  /\ UNCHANGED <<editor, dragv, toggles, pushed, pre, rt, geo, sdk, fit>>

\* the mounted session responds: no loader over it, no camera in front of it
Mounted == scan.container /\ ~scan.loader /\ ~scan.cameraOpen

\* the controls of the main toolbar (thumbnails, Crop, Rotate, Delete, Generate PDF)
\* respond: the edit toolbar replaces them while an edit mode is active
Interactive == Mounted /\ scan.editMode = "none"

\* the add-page button of the preview area, which stays in place in an edit mode
DoAddPage ==
  /\ Mounted
  /\ Scan("addPage", AddPage(scan))

\* the camera input's change event reaches handleImageCapture
CaptureDelivered ==
  /\ scan.cameraOpen
  /\ scan.nextId <= MaxPageIds
  /\ Scan("handleImageCapture",
          HandleImageCapture([scan EXCEPT !.cameraOpen = FALSE], scan.nextId))

\* the camera is dismissed without a capture
CaptureCancelled ==
  /\ scan.cameraOpen
  /\ Scan("captureCancelled", [scan EXCEPT !.cameraOpen = FALSE])

DoSelectThumbnail(index) ==
  /\ Interactive
  /\ Len(scan.images) <= MaxOpPages
  /\ index \in 0..Len(scan.images) - 1
  /\ Scan("selectThumbnail", SelectThumbnail(scan, index))

DoReorder(oldIndex, newIndex) ==
  /\ Interactive
  /\ scan.sortableInstance
  /\ Len(scan.images) <= MaxOpPages
  /\ oldIndex \in 0..Len(scan.images) - 1
  /\ newIndex \in 0..Len(scan.images) - 1
  /\ Scan("reorder", [SortableOnEnd(scan, oldIndex, newIndex) EXCEPT !.evt = <<oldIndex, newIndex>>])

\* deletePageByIndex for the index its caller passes
DoDeletePage(index) ==
  /\ Interactive
  /\ Len(scan.images) <= MaxOpPages
  /\ index \in -1..Len(scan.images)
  /\ Scan("deletePageByIndex", [DeletePageByIndex(scan, index) EXCEPT !.evt = <<index>>])

DoDeleteCurrentPage ==
  /\ Interactive
  /\ Scan("deleteCurrentPage", DeleteCurrentPage(scan))

DoHandleDone ==
  /\ Interactive
  /\ Scan("handleDone", HandleDone(scan))

\* the Generate PDF / Submit button, which keeps the focus after its click, is
\* activated again while the composition is awaited: no statement disables it
DoHandleDoneAgain ==
  /\ scan.container
  /\ scan.editMode = "none"
  /\ scan.composing # <<>>
  /\ Len(scan.composing) < MaxComposing
  /\ Scan("handleDone", HandleDone(scan))

\* imagesToPdf settles, with the document or with the error of the first bad
\* file; config.onDone returns or throws
ComposeFinished(bad, thrown) ==
  /\ scan.composing # <<>>
  /\ ~thrown \/ bad = 0
  /\ LET result == ImagesToPdf(scan.composing[1], bad)
     IN  Scan(IF ~result.ok THEN "composeRejected"
              ELSE IF thrown THEN "onDoneThrew" ELSE "composeResolved",
              ComposeSettled(scan, result, thrown))

\* the host calls the exported imagesToPdf on files of its own
DoImagesToPdf(files, bad) ==
  Scan("imagesToPdf", [scan EXCEPT !.pdf = ImagesToPdf(files, bad), !.evt = files])

\* the host calls destroy()
DoDestroy == Scan("destroy", Cleanup(scan))

DoCropImage ==
  /\ Interactive
  /\ Scan("cropImage", CropImage(scan))

DoRotateImage ==
  /\ Interactive
  /\ Scan("rotateImage", RotateImage(scan))

\* Left / Right of the rotate toolbar
DoHandleRotate(angle) ==
  /\ Mounted
  /\ scan.editMode = "rotate"
  /\ Scan("handleRotate", HandleRotate(scan, angle))

\* Cancel of either edit toolbar
DoCancelEdit ==
  /\ Mounted
  /\ scan.editMode # "none"
  /\ Scan("cancelEdit", CancelEdit(scan))

\* Save of the crop toolbar, Apply of the rotate toolbar
DoApply ==
  /\ Mounted
  /\ scan.editMode # "none"
  /\ Len(scan.applying) < MaxApplying
  /\ Scan("apply", MsApply(scan, scan.editMode))

\* an outstanding applyCrop / applyRotation settles
ApplyFinished(i, ok) ==
  /\ i \in 1..Len(scan.applying)
  /\ LET t == scan.applying[i]
     IN  Scan(IF ~ok THEN "applyFailed"
              ELSE IF t.kind = "crop" THEN "cropApplied" ELSE "rotationApplied",
              MsApplySettled(scan, i, ok))

ScanOp ==
  \/ \E index \in 0..DEFAULT_MAX_IMAGES : DoSelectThumbnail(index)
  \/ \E oldIndex, newIndex \in 0..DEFAULT_MAX_IMAGES : DoReorder(oldIndex, newIndex)
  \/ \E index \in -1..DEFAULT_MAX_IMAGES : DoDeletePage(index)
  \/ DoDeleteCurrentPage
  \/ DoHandleDone
  \/ DoHandleDoneAgain
  \/ DoDestroy
  \/ \E files \in HostFiles, bad \in 0..2 : DoImagesToPdf(files, bad)
  \/ DoCropImage
  \/ DoRotateImage
  \/ \E angle \in {-90, 90} : DoHandleRotate(angle)
  \/ DoCancelEdit
  \/ DoApply

NextScan ==
  \/ UNCHANGED steps /\ DoAddPage
  \/ UNCHANGED steps /\ CaptureDelivered
  \/ UNCHANGED steps /\ CaptureCancelled
  \/ steps < MaxScanOps /\ steps' = steps + 1 /\ ScanOp
  \/ UNCHANGED steps /\ \E bad \in 0..2, thrown \in BOOLEAN : ComposeFinished(bad, thrown)
  \/ UNCHANGED steps /\ \E i \in 1..MaxApplying, ok \in BOOLEAN : ApplyFinished(i, ok)

InitScan ==
  /\ InitEditor
  /\ geo = GeoIdle
  /\ \E max \in MaxImagesConfigs : scan = NewMultiScan(max)
  /\ sdk = NewQrUpload(DefaultConfig)
  /\ fit = FitIdle

SpecScan == InitScan /\ [][NextScan]_vars

(***************************************************************************)
(* SpecSdk: calls of the host on a QrUpload object, before and after       *)
(* init().                                                                 *)
(***************************************************************************)
SdkConfigs ==
  { [DefaultConfig EXCEPT !.useNativeCamera = n, !.uploadUrl = u, !.enablePolling = e] :
      n, u, e \in BOOLEAN }
SdkIntervals == { 500, 5000 }

Sdk(s) ==
  /\ sdk' = s
  /\ op' = s.result.method
  /\ UNCHANGED <<editor, dragv, steps, toggles, pushed, pre, rt, geo, scan, fit>>

\* the interval timer fires: checkForNewImages
PollTick ==
  /\ sdk.pollingInterval # 0
  /\ Sdk(Returned(sdk, "checkForNewImages", "none"))

NextSdk ==
  \/ \E config \in SdkConfigs : Sdk(SdkInit(sdk, config))
  \/ \E onRoute, granted \in BOOLEAN : Sdk(SdkMount(sdk, onRoute, granted))
  \/ Sdk(SdkUnmount(sdk))
  \/ \E granted \in BOOLEAN : Sdk(SdkStartCamera(sdk, granted))
  \/ Sdk(SdkStopCamera(sdk))
  \/ \E ok \in BOOLEAN : Sdk(SdkCaptureImage(sdk, ok))
  \/ \E ok \in BOOLEAN : Sdk(SdkUploadImage(sdk, ok))
  \/ Sdk(SdkGenerateQrCode(sdk))
  \/ Sdk(SdkStartPolling(sdk))
  \/ Sdk(SdkStopPolling(sdk))
  \/ Sdk(SdkIsPollingActive(sdk))
  \/ \E enabled \in BOOLEAN : Sdk(SdkSetPollingEnabled(sdk, enabled))
  \/ \E interval \in SdkIntervals : Sdk(SdkSetPollingInterval(sdk, interval))
  \/ PollTick

SpecSdk == Init /\ [][NextSdk]_vars

(***************************************************************************)
(* SpecFit: one call of calculateFitDimensions on an image size, a page    *)
(* size and a margin with pageWidth > 2 * margin and pageHeight > 2 *      *)
(* margin.                                                                 *)
(***************************************************************************)
ImageSides == { 1, 3, 100, 330, 331, 400, 1000 }
\* a4 and letter, in whole millimetres
PageSizes == { <<210, 297>>, <<216, 279>> }
Margins == { 10, 20 }

DoCalculateFit ==
  /\ ~fit.done
  /\ LET r == CalculateFitDimensions(FlInt(fit.imgWidth), FlInt(fit.imgHeight),
                                     FlInt(fit.pageWidth), FlInt(fit.pageHeight),
                                     FlInt(fit.margin))
     IN  fit' = [fit EXCEPT !.done = TRUE, !.width = r.width, !.height = r.height,
                            !.x = r.x, !.y = r.y]
  /\ op' = "calculateFitDimensions"
  /\ UNCHANGED <<editor, dragv, steps, toggles, pushed, pre, rt, geo, scan, sdk>>

NextFit == DoCalculateFit

InitFit ==
  /\ InitEditor
  /\ geo = GeoIdle
  /\ scan = NewMultiScan(0)
  /\ sdk = NewQrUpload(DefaultConfig)
  /\ \E w, h \in ImageSides, page \in PageSizes, m \in Margins :
       fit = FitCall(w, h, page[1], page[2], m)

SpecFit == InitFit /\ [][NextFit]_vars

(***************************************************************************)
(* SpecDrag: one resize move of each editor on drawn inputs                *)
(***************************************************************************)
GeoSizes == { <<200, 160>>, <<120, 300>>, <<1000, 800>> }
GeoXs == { 0, 30, 70 }
GeoYs == { 0, 40 }
GeoWidths == { 50, 90 }
GeoHeights == { 50, 110 }
GeoDeltas == { -1000, -30, 0, 45, 50, 100, 1000 }

\* the EditState invariant of a crop rectangle on a W x H image
InBounds(r, W, H) ==
  /\ r.x >= 0
  /\ r.y >= 0
  /\ r.width >= MIN_SIZE
  /\ r.height >= MIN_SIZE
  /\ r.x + r.width <= W
  /\ r.y + r.height <= H

InitDrag ==
  /\ InitEditor
  /\ scan = NewMultiScan(0)
  /\ sdk = NewQrUpload(DefaultConfig)
  /\ fit = FitIdle
  /\ \E size \in GeoSizes, x \in GeoXs, y \in GeoYs, handle \in Handles,
        dx \in GeoDeltas, dy \in GeoDeltas, mode \in BOOLEAN :
       \E width \in GeoWidths \cup {size[1] - x}, height \in GeoHeights \cup {size[2] - y} :
         /\ InBounds([x |-> x, y |-> y, width |-> width, height |-> height],
                     size[1], size[2])
         /\ geo = [done |-> FALSE, W |-> size[1], H |-> size[2], handle |-> handle,
                   start |-> [x |-> x, y |-> y, width |-> width, height |-> height],
                   dx |-> dx, dy |-> dy, cropMode |-> mode,
                   single |-> ZeroRect, multi |-> ZeroRect,
                   moved |-> FALSE, singleMove |-> ZeroRect, multiMove |-> ZeroRect,
                   second |-> NoSecond]

\* one pointer move of a resize session that began on geo.start: QrImageEditor.onCropDrag
\* (whose render refreshes the overlay in crop mode) and MultiScan.onCropDrag
GeoResize ==
  /\ ~geo.done
  /\ ~geo.moved
  /\ LET r == ResizeRect(geo.handle, geo.start, geo.dx, geo.dy, geo.start, geo.W, geo.H)
         ms == MsResizeRect(geo.handle, geo.start, geo.dx, geo.dy, geo.W, geo.H)
     IN  geo' = [geo EXCEPT !.done = TRUE,
                            !.single = IF geo.cropMode THEN ConstrainCrop(r, geo.W, geo.H) ELSE r,
                            !.multi = ConstrainCrop(ms, geo.W, geo.H)]
  /\ UNCHANGED <<editor, dragv, obs, scan, sdk, fit>>

\* one pointer move of a whole-rectangle move session that began on geo.start
GeoMove ==
  /\ ~geo.done
  /\ ~geo.moved
  /\ LET r == MoveRect(geo.start, geo.dx, geo.dy, geo.start, geo.W, geo.H)
         ms == MsMoveRect(geo.start, geo.dx, geo.dy, geo.start, geo.W, geo.H)
     IN  geo' = [geo EXCEPT !.moved = TRUE,
                            !.singleMove = IF geo.cropMode THEN ConstrainCrop(r, geo.W, geo.H) ELSE r,
                            !.multiMove = ConstrainCrop(ms, geo.W, geo.H)]
  /\ UNCHANGED <<editor, dragv, obs, scan, sdk, fit>>

\* a further pointer move of the resize session, at natural delta (dx, dy) from
\* dragStartPos: the crop in this.state / this.cropState is what the first move left
GeoResizeAgain(dx, dy) ==
  /\ geo.done
  /\ geo.second.kind = "none"
  /\ LET r == ResizeRect(geo.handle, geo.start, dx, dy, geo.single, geo.W, geo.H)
         ms == MsResizeRect(geo.handle, geo.start, dx, dy, geo.W, geo.H)
     IN  geo' = [geo EXCEPT !.second =
                   [kind |-> "resize", dx |-> dx, dy |-> dy,
                    single |-> IF geo.cropMode THEN ConstrainCrop(r, geo.W, geo.H) ELSE r,
                    multi |-> ConstrainCrop(ms, geo.W, geo.H)]]
  /\ UNCHANGED <<editor, dragv, obs, scan, sdk, fit>>

\* a further pointer move of the whole-rectangle move session
GeoMoveAgain(dx, dy) ==
  /\ geo.moved
  /\ geo.second.kind = "none"
  /\ LET r == MoveRect(geo.start, dx, dy, geo.singleMove, geo.W, geo.H)
         ms == MsMoveRect(geo.start, dx, dy, geo.multiMove, geo.W, geo.H)
     IN  geo' = [geo EXCEPT !.second =
                   [kind |-> "move", dx |-> dx, dy |-> dy,
                    single |-> IF geo.cropMode THEN ConstrainCrop(r, geo.W, geo.H) ELSE r,
                    multi |-> ConstrainCrop(ms, geo.W, geo.H)]]
  /\ UNCHANGED <<editor, dragv, obs, scan, sdk, fit>>

\* the pointer positions of the further move: the first event once more, or another one
GeoSecondDeltas == { <<-30, 45>>, <<0, 0>>, <<1000, -1000>> }

NextDrag ==
  \/ GeoResize
  \/ GeoMove
  \/ \E d \in GeoSecondDeltas \cup {<<geo.dx, geo.dy>>} : GeoResizeAgain(d[1], d[2])
  \/ \E d \in GeoSecondDeltas \cup {<<geo.dx, geo.dy>>} : GeoMoveAgain(d[1], d[2])

SpecDrag == InitDrag /\ [][NextDrag]_vars


(***************************************************************************)
(* Properties                                                              *)
(***************************************************************************)
\* no image load, overlay refresh or debounced save is outstanding
Quiescent == pendingLoads = <<>> /\ overlayTimers = 0 /\ ~rotationTimeout

IdentityOn(img) == [rotation |-> 0, flipX |-> FALSE, flipY |-> FALSE,
                    cropX |-> 0, cropY |-> 0, cropWidth |-> img.w, cropHeight |-> img.h]

\* C1: once the image has loaded, 0 <= historyIndex < history.length <= 50 in every
\* reachable state of the single-image editor.
C1_HistoryBounded ==
  phase = "ready" =>
    /\ 0 <= historyIndex
    /\ historyIndex < Len(history)
    /\ Len(history) <= HISTORY_CAP

\* a snapshot was pushed onto a full history whose index was at the last entry
C1_Witness ==
  /\ phase = "ready"
  /\ pushed # <<>>
  /\ pre.len = HISTORY_CAP
  /\ Len(history) = HISTORY_CAP
  /\ historyIndex = HISTORY_CAP - 1

\* C2 (as claimed): undo() immediately followed by redo() leaves the seven EditState
\* fields equal to their values just before the undo, whatever the state before the
\* undo was.
C2_UndoRedoRestoresState ==
  [][(op = "undo" /\ rt.stage = "undone" /\ op' = "redo") => state' = rt.state]_vars

\* C3 (as claimed): when the snapshot at the current index carries a stored bitmap,
\* undo() then redo() leaves, once the image loads have completed, the image that was
\* current just before the undo (same content, same natural size).
C3_UndoRedoRestoresImage ==
  (/\ rt.stage = "redone"
   /\ pendingLoads = <<>>
   /\ history[historyIndex + 1].imageDataUrl # <<>>)
  => image = rt.image

\* C4 (as claimed): after three pushes on top of the initial snapshot, undo(); undo()
\* leaves the EditState equal to S1 once the image restores have completed, and a
\* following redo() leaves it equal to S2.
C4_ThreeEditsScenario ==
  /\ (/\ rt.stage = "undone" /\ rt.undos = 2
      /\ Len(history) = 4 /\ historyIndex = 1
      /\ Quiescent)
     => state = Fields(history[2])
  /\ (/\ rt.stage = "redone" /\ rt.undos = 2
      /\ Len(history) = 4 /\ historyIndex = 2
      /\ Quiescent)
     => state = Fields(history[3])

\* C5: a push onto a history of 50 entries with the index at the last entry removes
\* exactly the oldest entry, keeps the order of the other 49, makes the new snapshot
\* the last entry and leaves the index at 49.
C5_CapEviction ==
  [][(/\ pushed' # <<>>
      /\ Len(history) = HISTORY_CAP
      /\ historyIndex = HISTORY_CAP - 1)
     => /\ history' = Append(Tail(history), pushed'[1])
        /\ Len(history') = HISTORY_CAP
        /\ historyIndex' = HISTORY_CAP - 1]_vars

\* the push onto the full history has happened
C5_Witness ==
  /\ pushed # <<>>
  /\ pre.len = HISTORY_CAP
  /\ pre.historyIndex = HISTORY_CAP - 1
  /\ historyIndex = HISTORY_CAP - 1
  /\ history[HISTORY_CAP] = pushed[1]

\* C6: a push while historyIndex < history.length - 1 discards every entry after the
\* index, keeps entries 0..historyIndex, appends the new snapshot and leaves the index
\* at the last entry; a redo() right after a push changes nothing.
C6_BranchPruning ==
  [][/\ (pushed' # <<>> /\ historyIndex >= 0 /\ historyIndex < Len(history) - 1)
        => /\ history' = Append(SubSeq(history, 1, historyIndex + 1), pushed'[1])
           /\ historyIndex' = Len(history') - 1
     /\ (pushed # <<>> /\ op' = "redo")
        => UNCHANGED <<history, historyIndex, state, image, canvas, pendingLoads>>]_vars

\* a snapshot was pushed while redo entries existed, and they are gone
C6_Witness ==
  /\ pushed # <<>>
  /\ pre.historyIndex >= 0
  /\ pre.historyIndex < pre.len - 1
  /\ Len(history) = pre.historyIndex + 2
  /\ historyIndex = Len(history) - 1

\* C7: undo() at index 0 and redo() at the last index change nothing; undo() and
\* redo() never change the length of the history or any of its entries.
C7_UndoRedoFrame ==
  [][/\ ((op' = "undo" /\ historyIndex = 0)
         \/ (op' = "redo" /\ historyIndex = Len(history) - 1))
        => UNCHANGED <<history, historyIndex, state, image, originalImage, canvas,
                       pendingLoads, overlayTimers>>
     /\ op' \in {"undo", "redo"} => history' = history]_vars

\* undo() ran at index 0 while entries to redo existed, and they are still there
C7_Witness ==
  /\ op = "undo"
  /\ pre.historyIndex = 0
  /\ pre.len > 1
  /\ Len(history) = pre.len
  /\ historyIndex = 0

\* C8 (as claimed): redo() right after resetAll() changes neither the index nor the
\* EditState nor the image, even when entries beyond index 0 remain.
C8_RedoDisabledAfterReset ==
  [][(op = "resetAll" /\ op' = "redo")
     => UNCHANGED <<historyIndex, state, image, pendingLoads>>]_vars

\* C8 (amended): redo() right after resetAll() is a no-op only when the history holds
\* a single entry; otherwise it moves the index to 1, loads entry 1's rotation and
\* flips and its crop rectangle (x, y floored at 0, width, height raised to at least
\* 50) and starts loading entry 1's stored bitmap.
C8_RedoAfterReset ==
  [][(op = "resetAll" /\ op' = "redo")
     => IF Len(history) = 1
        THEN UNCHANGED <<history, historyIndex, state, image, pendingLoads>>
        ELSE LET e == history[2]
             IN  /\ historyIndex' = 1
                 /\ history' = history
                 /\ image' = image
                 /\ state' = [rotation |-> e.rotation, flipX |-> e.flipX, flipY |-> e.flipY,
                              cropX |-> Max(0, e.cropX), cropY |-> Max(0, e.cropY),
                              cropWidth |-> Max(MIN_SIZE, e.cropWidth),
                              cropHeight |-> Max(MIN_SIZE, e.cropHeight)]
                 /\ e.imageDataUrl # <<>>
                 /\ pendingLoads' = Append(pendingLoads,
                                           [kind |-> "restore",
                                            img |-> DecodeDataURL(e.imageDataUrl[1])])]_vars

\* redo() ran right after resetAll() with entries beyond index 0, and moved to entry 1
C8_Witness ==
  /\ op = "redo"
  /\ rt.stage = "none"
  /\ pre.historyIndex = 0
  /\ pre.len > 1
  /\ pre.image = originalImage
  /\ historyIndex = 1
  /\ Fields(history[1]) = IdentityOn(originalImage)
  /\ history[1].imageDataUrl = <<>>
  /\ state # IdentityOn(originalImage)

\* C9: resetAll() makes the originally loaded image current, sets the EditState to the
\* identity with the crop on the original's full bounds, sets the index to 0, overwrites
\* entry 0 with that state and leaves the length and the later entries unchanged.
C9_ResetAll ==
  [][(op' = "resetAll" /\ phase = "ready")
     => /\ image' = originalImage
        /\ originalImage' = originalImage
        /\ state' = IdentityOn(originalImage)
        /\ historyIndex' = 0
        /\ Len(history') = Len(history)
        /\ Fields(history'[1]) = IdentityOn(originalImage)
        /\ \A i \in 2..Len(history) : history'[i] = history[i]]_vars

\* resetAll() ran while a cropped image was current and the history had later entries
C9_Witness ==
  /\ op = "resetAll"
  /\ pre.image # originalImage
  /\ pre.image.c.kind = "crop"
  /\ pre.historyIndex > 0
  /\ Len(history) > 1
  /\ image = originalImage

\* C10: after a resize move from a start rectangle inside a W x H image, for every
\* handle and every delta, the crop rectangle has x, y >= 0, width, height >= 50 and
\* lies inside the image, in the single-image editor and in the multi-page crop mode.
C10_ResizeInBounds ==
  geo.done =>
    /\ InBounds(geo.single, geo.W, geo.H)
    /\ InBounds(geo.multi, geo.W, geo.H)

\* a corner dragged far beyond the image was clamped to the image bounds
C10_Witness ==
  /\ geo.done
  /\ geo.handle = "se"
  /\ geo.dx = 1000
  /\ geo.dy = 1000
  /\ geo.start.x + geo.start.width < geo.W
  /\ geo.single.x + geo.single.width = geo.W
  /\ geo.multi.y + geo.multi.height = geo.H

\* C11 (as claimed): once the image has loaded, the crop rectangle of the EditState lies
\* inside the current image with width and height of at least 50, in every reachable
\* state, including those between an undo or redo and the completion of its restore.
C11_CropInsideImage ==
  phase = "ready" => InBounds(RectOf(state), image.w, image.h)

\* C12: a resize move changes only the edges its handle owns: the opposite edges stay at
\* their drag-start coordinates, the edge handles leave the other axis unchanged, and an
\* owned edge that no clamp stops moves by exactly the natural delta, in both editors.
C12_HandleOwnsEdges ==
  geo.done =>
    \A r \in {geo.single, geo.multi} :
      LET s == geo.start
          h == geo.handle
      IN  /\ h \in {"w", "nw", "sw"} => r.x + r.width = s.x + s.width
          /\ h \in {"e", "ne", "se"} => r.x = s.x
          /\ h \in {"n", "nw", "ne"} => r.y + r.height = s.y + s.height
          /\ h \in {"s", "sw", "se"} => r.y = s.y
          /\ h \in {"n", "s"} => (r.x = s.x /\ r.width = s.width)
          /\ h \in {"e", "w"} => (r.y = s.y /\ r.height = s.height)
          /\ (h \in {"w", "nw", "sw"} /\ 0 <= s.x + geo.dx
              /\ s.x + geo.dx <= s.x + s.width - MIN_SIZE) => r.x = s.x + geo.dx
          /\ (h \in {"n", "nw", "ne"} /\ 0 <= s.y + geo.dy
              /\ s.y + geo.dy <= s.y + s.height - MIN_SIZE) => r.y = s.y + geo.dy
          /\ (h \in {"e", "ne", "se"} /\ MIN_SIZE <= s.width + geo.dx
              /\ s.width + geo.dx <= geo.W - s.x) => r.width = s.width + geo.dx
          /\ (h \in {"s", "sw", "se"} /\ MIN_SIZE <= s.height + geo.dy
              /\ s.height + geo.dy <= geo.H - s.y) => r.height = s.height + geo.dy

\* the scenario: 1000 x 800, full-bounds crop, nw dragged by (+100, +50)
C12_Witness ==
  /\ geo.done
  /\ geo.W = 1000 /\ geo.H = 800
  /\ geo.start = [x |-> 0, y |-> 0, width |-> 1000, height |-> 800]
  /\ geo.handle = "nw" /\ geo.dx = 100 /\ geo.dy = 50
  /\ geo.single = [x |-> 100, y |-> 50, width |-> 900, height |-> 750]
  /\ geo.multi = [x |-> 100, y |-> 50, width |-> 900, height |-> 750]

\* C13: a whole-rectangle move keeps width and height at their drag-start values and sets
\* x = clamp(startX + dx, 0, imageWidth - width), y = clamp(startY + dy, 0, imageHeight -
\* height), so the rectangle stays inside the image for any delta, in both editors.
C13_MoveClamped ==
  geo.moved =>
    \A r \in {geo.singleMove, geo.multiMove} :
      LET s == geo.start
      IN  /\ r.width = s.width
          /\ r.height = s.height
          /\ r.x = Max(0, Min(s.x + geo.dx, geo.W - s.width))
          /\ r.y = Max(0, Min(s.y + geo.dy, geo.H - s.height))
          /\ InBounds(r, geo.W, geo.H)

\* a move far to the south-east stopped at the image's east and south edges
C13_Witness ==
  /\ geo.moved
  /\ geo.dx = 1000 /\ geo.dy = 1000
  /\ geo.start.x + geo.start.width < geo.W
  /\ geo.start.y + geo.start.height < geo.H
  /\ geo.singleMove.x = geo.W - geo.start.width
  /\ geo.singleMove.y = geo.H - geo.start.height
  /\ geo.multiMove = geo.singleMove
  /\ geo.multiMove.width = geo.start.width

\* C14: the file save() hands to onSave is round(cropWidth) x round(cropHeight) pixels for
\* every rotation and flip combination; after applyCrop() on a full-bounds crop of a
\* W x H image, a save() with no further edits yields W x H.
C14_SaveOutputSize ==
  [][ /\ op' = "handleSave" =>
          LET out == saving'[Len(saving')]
          IN  /\ Len(saving') = Len(saving) + 1
              /\ 2 * out.w - 1 <= 2 * state.cropWidth /\ 2 * state.cropWidth < 2 * out.w + 1
              /\ 2 * out.h - 1 <= 2 * state.cropHeight /\ 2 * state.cropHeight < 2 * out.h + 1
              /\ (op = "cropLoaded" /\ pre.image = originalImage /\ pushed # <<>>
                  /\ image.w = originalImage.w /\ image.h = originalImage.h)
                 => (out.w = originalImage.w /\ out.h = originalImage.h)
      /\ op' = "saveEncoded" => savedFiles' = Append(savedFiles, Head(saving)) ]_vars

\* a quarter-turned, flipped, cropped-down image was saved at the crop's own size
C14_Witness ==
  /\ op = "saveEncoded"
  /\ savedFiles # <<>>
  /\ state.rotation = 90
  /\ state.flipX
  /\ state.cropWidth # state.cropHeight
  /\ state.cropWidth < image.w
  /\ savedFiles[1].w = state.cropWidth
  /\ savedFiles[1].h = state.cropHeight

\* the configured maximum of a session (imageConfig.maxImages, 10 when unset)
PageLimit == OrElse(scan.maxImages, DEFAULT_MAX_IMAGES)

IdCount(images, id) == Cardinality({ k \in 1..Len(images) : images[k].id = id })

\* C16: a reorder from position i to position j keeps the pages' ids as a
\* multiset, puts the moved page at j, keeps the other pages in their relative
\* order, and leaves the same logical page selected, for every i, j and
\* selected position.
C16_ReorderKeepsPages ==
  [][ op' = "reorder" =>
        LET i == scan'.evt[1]
            j == scan'.evt[2]
            a == scan.images
            b == scan'.images
        IN  /\ Len(b) = Len(a)
            /\ \A id \in 1..MaxPageIds : IdCount(b, id) = IdCount(a, id)
            /\ b[j + 1] = a[i + 1]
            /\ RemoveAt(b, j) = RemoveAt(a, i)
            /\ scan'.currentImageIndex \in 0..Len(b) - 1
            /\ b[scan'.currentImageIndex + 1].id = a[scan.currentImageIndex + 1].id ]_vars

C16_Witness ==
  /\ op = "reorder"
  /\ scan.evt = <<0, 2>>
  /\ Len(scan.images) = 3
  /\ scan.images[1].id = 2 /\ scan.images[2].id = 3 /\ scan.images[3].id = 1
  /\ scan.currentImageIndex = 0

\* currentImageIndex after the selected page at position k was removed, leaving rest
SelectedAfterDelete(k, rest) == IF Len(rest) = 0 THEN 0 ELSE Min(k, Len(rest) - 1)

\* C17: deleting the selected page removes exactly that page; if pages remain
\* the selection is the deleted position clamped to the last valid position,
\* and if none remain the session is in the empty state (empty list, index 0);
\* a delete with an index out of range changes nothing.
C17_DeleteSelected ==
  [][ /\ op' = "deletePageByIndex" =>
          LET k == scan'.evt[1]
              a == scan.images
          IN  IF k < 0 \/ k >= Len(a)
              THEN [scan' EXCEPT !.evt = scan.evt] = scan
              ELSE /\ scan'.images = RemoveAt(a, k)
                   /\ k = scan.currentImageIndex =>
                        scan'.currentImageIndex = SelectedAfterDelete(k, scan'.images)
      /\ op' = "deleteCurrentPage" =>
          LET k == scan.currentImageIndex
              a == scan.images
          IN  IF Len(a) = 0
              THEN scan' = scan
              ELSE /\ scan'.images = RemoveAt(a, k)
                   /\ scan'.currentImageIndex = SelectedAfterDelete(k, scan'.images) ]_vars

C17_Witness ==
  /\ op = "deletePageByIndex"
  /\ scan.evt = <<2>>
  /\ scan.nextId = 4
  /\ Len(scan.images) = 2
  /\ scan.images[1].id = 1 /\ scan.images[2].id = 2
  /\ scan.currentImageIndex = 1

\* the files of a page list, in order
FilesOf(images) == [i \in 1..Len(images) |-> images[i].file]

\* C18 as stated: the session is torn down (page list emptied, reorder widget
\* destroyed, container removed) when the composition succeeds and when it
\* fails.
C18_TeardownOnSuccessAndFailure ==
  [][ op' \in {"composeResolved", "composeRejected"} =>
        /\ scan'.images = <<>>
        /\ ~scan'.sortableInstance
        /\ ~scan'.container ]_vars

\* C18: the session is torn down (page list emptied, reorder widget destroyed,
\* container removed) when the composition succeeds and onDone returns; when
\* the composition fails, or onDone throws, only the loader is removed and the
\* page list, the reorder widget and the container stay as they were.
C18_TeardownOnSuccessOnly ==
  [][ /\ op' = "composeResolved" =>
          /\ scan'.images = <<>>
          /\ ~scan'.sortableInstance
          /\ ~scan'.container
          /\ Len(scan.composing) = 1 => ~scan'.loader
      /\ op' \in {"composeRejected", "onDoneThrew"} =>
          /\ scan'.images = scan.images
          /\ scan'.sortableInstance = scan.sortableInstance
          /\ scan'.container = scan.container
          /\ Len(scan.composing) = 1 => ~scan'.loader ]_vars

C18_Witness ==
  /\ op = "composeRejected"
  /\ Len(scan.images) = 2
  /\ scan.sortableInstance
  /\ scan.container
  /\ ~scan.loader
  /\ scan.onDone = <<>>

C20_EmptyRejected ==
  [][ /\ (op' = "handleDone" /\ scan.images = <<>>) =>
          /\ scan'.composing = <<>> /\ ~scan'.loader
          /\ scan'.onDone = scan.onDone
          /\ scan'.toast.type = "error"
          /\ [scan' EXCEPT !.toast = scan.toast] = scan
      /\ (op' = "imagesToPdf" /\ scan'.evt = <<>>) =>
          /\ ~scan'.pdf.ok
          /\ scan'.pdf.message = "No files provided for PDF conversion" ]_vars

C20_Witness ==
  /\ op = "handleDone"
  /\ scan.images = <<>>
  /\ scan.container
  /\ scan.toast = [message |-> "Please add at least one page", type |-> "error"]
  /\ scan.composing = <<>>
  /\ scan.onDone = <<>>
  /\ scan.pdf = [ok |-> FALSE, message |-> "No files provided for PDF conversion", pages |-> <<>>]

\* C21 (as claimed): after crop-apply has completed, one undo() makes the image that
\* was being edited immediately before crop-apply the current image (same natural
\* size and content), directly or through the restore it starts, together with the
\* crop rectangle that image had when crop-apply was called.
C21_UndoAfterCropApply ==
  [][ (/\ op = "cropLoaded" /\ pendingLoads = <<>>
       /\ (image.c = pre.image.c \/ image.c.src = <<pre.image.c>>)
       /\ op' = "undo")
      => LET before == pre.image
             rectBefore == IF image.c = before.c
                           THEN [x |-> 0, y |-> 0, width |-> before.w, height |-> before.h]
                           ELSE [x |-> image.c.p[1], y |-> image.c.p[2],
                                 width |-> image.c.p[3], height |-> image.c.p[4]]
             installed == IF pendingLoads' = <<>> THEN image' ELSE pendingLoads'[1].img
         IN  /\ installed = before
             /\ RectOf(state') = rectBefore ]_vars

\* C22 (as claimed): no move event of a drag session computes the crop rectangle from a
\* drag-start rectangle or a scale factor captured against an image that has since been
\* replaced, and the scale factor does not change between the pointer-down and the
\* pointer-up of one drag.
C22_NoStaleDrag ==
  [][ /\ (op' = "onCropDrag" /\ isDraggingCrop)
          => (dragFrom.image = image /\ dragFrom.imageScale = imageScale)
      /\ (isDraggingCrop /\ isDraggingCrop') => imageScale' = imageScale ]_vars

\* C23 (as claimed): once onCancel has been invoked for a session, onSave is never
\* invoked for it: the result of an encoding that was outstanding at the cancel is
\* discarded when it resolves.
C23_NoSaveAfterCancel ==
  \A i, j \in 1..Len(callbacks) :
    (callbacks[i] = "onCancel" /\ i < j) => callbacks[j] # "onSave"

\* C24: when the bitmap handed to the editor cannot be decoded, the session ends on the
\* cancel path: onCancel is invoked exactly once and onSave never, no history snapshot
\* exists and no editor UI was created.
C24_DecodeFailureCancels ==
  phase = "failed" =>
    /\ callbacks = <<"onCancel">>
    /\ savedFiles = <<>> /\ saving = <<>>
    /\ history = <<>> /\ historyIndex = -1
    /\ canvas = NoImage /\ ~overlayShown /\ ~cropMode
    /\ image = NoImage

C24_Witness ==
  /\ phase = "failed"
  /\ op = "openEditorFailed"
  /\ callbacks = <<"onCancel">>
  /\ history = <<>>

GuardedMethods ==
  { "mount", "startCamera", "stopCamera", "captureImage", "uploadImage", "generateQrCode",
    "startPolling", "stopPolling", "isPollingActive", "setPollingEnabled",
    "setPollingInterval" }

\* C25 (as claimed): a guarded method called before init() throws and leaves the SDK
\* state (polling flag, timer, configuration and the rest of the object) unchanged.
C25_GuardedBeforeInit ==
  [][ (~sdk.isInitialized /\ op' \in GuardedMethods)
      => /\ sdk'.result.threw
         /\ [sdk' EXCEPT !.result = sdk.result] = sdk ]_vars

\* C26: imagesToPdf on N >= 1 images yields a document of exactly N pages whose
\* page k holds image k of the input and nothing else; handleDone hands
\* imagesToPdf the files of the page list in its current order, and the document
\* given to onDone has one page per file of that list, in that order, so that a
\* reorder made before Done is reflected in the document.
C26_PagePerImageInOrder ==
  [][ /\ (op' = "imagesToPdf" /\ scan'.pdf.ok) =>
          /\ Len(scan'.evt) >= 1
          /\ Len(scan'.pdf.pages) = Len(scan'.evt)
          /\ \A k \in 1..Len(scan'.evt) : scan'.pdf.pages[k] = <<scan'.evt[k]>>
      /\ (op' = "handleDone" /\ scan.images # <<>>) =>
          scan'.composing
            = Append(scan.composing, [k \in 1..Len(scan.images) |-> scan.images[k].file])
      /\ op' = "composeResolved" =>
          /\ Len(scan.composing[1]) >= 1
          /\ scan'.onDone = Append(scan.onDone,
                                   [k \in 1..Len(scan.composing[1]) |-> <<scan.composing[1][k]>>]) ]_vars

C26_Witness ==
  /\ op = "composeResolved"
  /\ scan.evt = <<1, 0>>
  /\ scan.onDone = << << <<2>>, <<1>> >> >>

\* C27 (as claimed): for every image size, page size and margin with pageWidth > 2m
\* and pageHeight > 2m, the result has width <= w, height <= h,
\* width <= pageWidth - 2m, height <= pageHeight - 2m, width * h = height * w,
\* x = (pageWidth - width) / 2 and y = (pageHeight - height) / 2, and an image
\* that already fits is returned at its own size.
C27_FitExact ==
  fit.done =>
    LET w == FlInt(fit.imgWidth)
        h == FlInt(fit.imgHeight)
        maxWidth == FlInt(fit.pageWidth - 2 * fit.margin)
        maxHeight == FlInt(fit.pageHeight - 2 * fit.margin)
        e == Min(fit.width.e, fit.height.e)
        ex == Min(Min(fit.x.e, fit.width.e), 0)
        ey == Min(Min(fit.y.e, fit.height.e), 0)
    IN  /\ ~FlLess(w, fit.width) /\ ~FlLess(h, fit.height)
        /\ ~FlLess(maxWidth, fit.width) /\ ~FlLess(maxHeight, fit.height)
        /\ Scaled(fit.width, e) * fit.imgHeight = Scaled(fit.height, e) * fit.imgWidth
        /\ 2 * Scaled(fit.x, ex) = fit.pageWidth * Pow2(0 - ex) - Scaled(fit.width, ex)
        /\ 2 * Scaled(fit.y, ey) = fit.pageHeight * Pow2(0 - ey) - Scaled(fit.height, ey)
        /\ (~FlLess(maxWidth, w) /\ ~FlLess(maxHeight, h)) =>
              fit.width = w /\ fit.height = h

\* C27: the result never exceeds the image's own size (width <= w, height <= h),
\* and an image that already fits is returned at its own size; the other
\* relations hold up to the rounding of the arithmetic: width and height exceed
\* pageWidth - 2m and pageHeight - 2m by at most one unit in the last place,
\* width * h and height * w differ by at most 2^-(Precision - 2) of their size,
\* and x and y differ from (pageWidth - width) / 2 and (pageHeight - height) / 2
\* by at most the rounding of one subtraction.
C27_FitUpToRounding ==
  fit.done =>
    LET w == FlInt(fit.imgWidth)
        h == FlInt(fit.imgHeight)
        maxWidth == FlInt(fit.pageWidth - 2 * fit.margin)
        maxHeight == FlInt(fit.pageHeight - 2 * fit.margin)
        e == Min(fit.width.e, fit.height.e)
        ew == Min(fit.width.e, maxWidth.e)
        eh == Min(fit.height.e, maxHeight.e)
        ex == Min(Min(fit.x.e, fit.width.e), 0)
        ey == Min(Min(fit.y.e, fit.height.e), 0)
        restX == fit.pageWidth * Pow2(0 - ex) - Scaled(fit.width, ex)
        restY == fit.pageHeight * Pow2(0 - ey) - Scaled(fit.height, ey)
        Dist(a, b) == IF a < b THEN b - a ELSE a - b
    IN  /\ ~FlLess(w, fit.width) /\ ~FlLess(h, fit.height)
        /\ Scaled(fit.width, ew) <= Scaled(maxWidth, ew) + Pow2(maxWidth.e - ew)
        /\ Scaled(fit.height, eh) <= Scaled(maxHeight, eh) + Pow2(maxHeight.e - eh)
        /\ Dist(Scaled(fit.width, e) * fit.imgHeight, Scaled(fit.height, e) * fit.imgWidth)
             * Pow2(Precision - 2) <= Scaled(fit.width, e) * fit.imgHeight
        /\ restX >= 0 /\ Dist(2 * Scaled(fit.x, ex), restX) * Pow2(Precision) <= restX
        /\ restY >= 0 /\ Dist(2 * Scaled(fit.y, ey), restY) * Pow2(Precision) <= restY
        /\ (~FlLess(maxWidth, w) /\ ~FlLess(maxHeight, h)) =>
              fit.width = w /\ fit.height = h

\* an image wider than the page was scaled down, and the rounded width is larger
\* than the width the margins leave
C27_Witness ==
  /\ fit.done
  /\ fit.imgWidth > fit.pageWidth
  /\ FlLess(fit.width, FlInt(fit.imgWidth))
  /\ FlLess(FlInt(fit.pageWidth - 2 * fit.margin), fit.width)

\* C28 (as claimed): a snapshot pushed onto the history carries a rendered bitmap
\* if and only if it was pushed by crop-apply; the snapshots pushed by a flip
\* toggle, a rotation change, a crop reset or a drag end carry none.
C28_BitmapOnlyFromCropApply ==
  [][ pushed' # <<>> =>
        (pushed'[1].imageDataUrl # <<>> <=> op' = "cropLoaded") ]_vars

\* C29 (as claimed): immediately after an image of natural size W x H has been
\* loaded, the history holds exactly one snapshot, at index 0, whose EditState is
\* the identity with a full-image crop: rotation 0, both flips false and
\* cropRect = {0, 0, W, H}.
C29_InitialSnapshotFullImage ==
  [][ op' = "openEditor" =>
        /\ Len(history') = 1
        /\ historyIndex' = 0
        /\ Fields(history'[1]) =
             [rotation |-> 0, flipX |-> FALSE, flipY |-> FALSE,
              cropX |-> 0, cropY |-> 0,
              cropWidth |-> image'.w, cropHeight |-> image'.h] ]_vars

\* C30: a pointer-up that ends a drag session pushes exactly one snapshot, that
\* of the state at pointer-up, and neither the pointer-down nor the moves in
\* between push any; a pointer-up with no drag session active pushes no snapshot
\* and changes no state; and in every reachable state the drag kind is set
\* (handle or move) exactly when a drag session is active.
C30_OneSnapshotPerDrag ==
  [][ /\ (dragType # "none") <=> isDraggingCrop
      /\ (dragType' # "none") <=> isDraggingCrop'
      /\ op' \in {"startCropDrag", "startCropMove", "onCropDrag"} =>
           /\ pushed' = <<>>
           /\ history' = history /\ historyIndex' = historyIndex
      /\ op' \in {"startCropDrag", "startCropMove"} =>
           /\ isDraggingCrop'
           /\ dragType' = (IF op' = "startCropDrag" THEN "handle" ELSE "move")
      /\ (op' = "stopCropDrag" /\ isDraggingCrop) =>
           /\ ~isDraggingCrop'
           /\ Len(pushed') = 1
           /\ Fields(pushed'[1]) = state /\ state' = state
           /\ historyIndex' = Len(history') - 1
           /\ history'[Len(history')] = pushed'[1]
           /\ SubSeq(history', 1, Len(history') - 1) = SubSeq(history, 1, historyIndex + 1)
      /\ (op' = "stopCropDrag" /\ ~isDraggingCrop) =>
           /\ pushed' = <<>>
           /\ UNCHANGED <<image, originalImage, state, history, historyIndex, cropMode,
                          overlayShown, canvas, fixedCanvasWidth, fixedCanvasHeight,
                          imageScale, pendingLoads, overlayTimers, rotationTimeout,
                          savedFiles, saving, callbacks, phase, dragv>> ]_vars

C30_Witness ==
  /\ op = "stopCropDrag"
  /\ ~isDraggingCrop /\ dragType = "none"
  /\ Len(history) = 2 /\ historyIndex = 1
  /\ history[2].cropWidth # image.w
  /\ Fields(history[2]) = state

\* C31: within one drag session the crop rectangle after a move event depends only
\* on the rectangle captured at pointer-down and on that event's pointer position:
\* whatever move was delivered before it, the rectangle is the one the event
\* yields when it is the first of the session, and the same event delivered twice
\* leaves the rectangle of its first delivery, in both editors and for resize
\* and whole-rectangle sessions.
C31_MoveFromStartOnly ==
  LET s == geo.start
      d == geo.second
      first(r) == IF geo.cropMode THEN ConstrainCrop(r, geo.W, geo.H) ELSE r
  IN  /\ d.kind = "resize" =>
           /\ d.single = first(ResizeRect(geo.handle, s, d.dx, d.dy, s, geo.W, geo.H))
           /\ d.multi = ConstrainCrop(MsResizeRect(geo.handle, s, d.dx, d.dy, geo.W, geo.H),
                                      geo.W, geo.H)
           /\ (d.dx = geo.dx /\ d.dy = geo.dy) =>
                 (d.single = geo.single /\ d.multi = geo.multi)
      /\ d.kind = "move" =>
           /\ d.single = first(MoveRect(s, d.dx, d.dy, s, geo.W, geo.H))
           /\ d.multi = ConstrainCrop(MsMoveRect(s, d.dx, d.dy, s, geo.W, geo.H),
                                      geo.W, geo.H)
           /\ (d.dx = geo.dx /\ d.dy = geo.dy) =>
                 (d.single = geo.singleMove /\ d.multi = geo.multiMove)

\* a south-east resize that first shrank the rectangle and then, on a later event,
\* grew it to the image's edge
C31_Witness ==
  /\ geo.second.kind = "resize"
  /\ geo.handle = "se"
  /\ geo.dx = -30 /\ geo.dy = -30
  /\ geo.single.width < geo.start.width
  /\ geo.second.dx = 1000
  /\ geo.second.single.x + geo.second.single.width = geo.W
  /\ geo.second.single # geo.single

\* C32: a rotation change or a flip toggle leaves the preview frame size, the
\* natural-to-display scale factor, the crop rectangle and the current image
\* unchanged; toggleFlip(horizontal) changes only flipX, toggleFlip(vertical)
\* only flipY, each by negating it, so that toggling an axis twice restores the
\* flag; a rotation change changes only the rotation.
C32_FlipRotateFrame ==
  [][ op' \in {"toggleFlip", "rotationInput"} =>
        /\ fixedCanvasWidth' = fixedCanvasWidth
        /\ fixedCanvasHeight' = fixedCanvasHeight
        /\ imageScale' = imageScale
        /\ RectOf(state') = RectOf(state)
        /\ image' = image
        /\ op' = "rotationInput" => (state'.flipX = state.flipX /\ state'.flipY = state.flipY)
        /\ op' = "toggleFlip" =>
             /\ state'.rotation = state.rotation
             /\ (state'.flipX = ~state.flipX) # (state'.flipY = ~state.flipY)
             /\ \A type \in {"horizontal", "vertical"} :
                  state' = ToggleFlip(Cur, type).state =>
                    /\ state'.flipX = (IF type = "horizontal" THEN ~state.flipX ELSE state.flipX)
                    /\ state'.flipY = (IF type = "vertical" THEN ~state.flipY ELSE state.flipY)
                    /\ ToggleFlip([Cur EXCEPT !.state = state'], type).state.flipX = state.flipX
                    /\ ToggleFlip([Cur EXCEPT !.state = state'], type).state.flipY = state.flipY ]_vars

\* C33 (as claimed): a crop or a rotation applied in the multi-page session replaces
\* the image of exactly one page, the page that was selected when the edit mode
\* was entered, with the crop rectangle computed against that page's image, and
\* leaves every other page's image, the page ids and the list order unchanged,
\* even if a page is added or deleted during the edit mode or the pending apply.
C33_EditSelectedPageOnly ==
  [][ op' \in {"cropApplied", "rotationApplied"} =>
        LET t == scan'.applied
        IN  /\ Len(scan'.images) = Len(scan.images)
            /\ \A k \in 1..Len(scan.images) :
                 /\ scan'.images[k].id = scan.images[k].id
                 /\ scan.images[k].id # t.entered =>
                      scan'.images[k].file = scan.images[k].file
                 /\ scan.images[k].id = t.entered =>
                      scan'.images[k].file = EditedFile(scan.images[k].file)
            /\ \E k \in 1..Len(scan.images) : scan.images[k].id = t.entered
            /\ t.page = t.entered
            /\ t.kind = "crop" => t.base = t.src ]_vars

\* C35 (as claimed): deleting a page other than the selected one leaves the same
\* logical page (the same id) selected, whether the deleted page is before or
\* after it; and in every state the selection index is within [0, pages - 1]
\* when pages exist and 0 when the list is empty.
C35_DeleteKeepsSelectedPage ==
  [][ /\ ( /\ op' = "deletePageByIndex"
           /\ scan'.evt[1] \in 0..(Len(scan.images) - 1)
           /\ scan'.evt[1] # scan.currentImageIndex
           /\ scan.currentImageIndex < Len(scan.images) ) =>
          scan'.images[scan'.currentImageIndex + 1].id
            = scan.images[scan.currentImageIndex + 1].id
      /\ IF Len(scan'.images) = 0 THEN scan'.currentImageIndex = 0
         ELSE scan'.currentImageIndex \in 0..(Len(scan'.images) - 1) ]_vars

\* C37 (as claimed): in a multi-page session onDone is invoked at most once; a
\* second finalize request issued while a first composition is pending, or
\* after the session was cleaned up, starts no composition and delivers no
\* second document.
C37_OnDoneAtMostOnce ==
  [][ /\ (op' = "handleDone" /\ (scan.composing # <<>> \/ ~scan.container)) =>
           scan'.composing = scan.composing
      /\ (scan.onDone # <<>> /\ ~scan.container) => scan'.onDone = scan.onDone ]_vars

(***************************************************************************)
(* QrUpload: the preview list of the in-page camera and submitImages.      *)
(***************************************************************************)
SetStatus(images, id, status) ==
  [k \in 1..Len(images) |-> IF images[k].id = id THEN [images[k] EXCEPT !.status = status]
                            ELSE images[k]]

\* the ids of the images an upload is due for
RECURSIVE DueIds(_)
DueIds(images) ==
  IF images = <<>> THEN <<>>
  ELSE (IF Head(images).status \in {"pending", "error"} THEN <<Head(images).id>> ELSE <<>>)
       \o DueIds(Tail(images))

RECURSIVE WithoutUploaded(_)
WithoutUploaded(images) ==
  IF images = <<>> THEN <<>>
  ELSE (IF Head(images).status # "uploaded" THEN <<Head(images)>> ELSE <<>>)
       \o WithoutUploaded(Tail(images))

\* the click handler of the shutter button, with a capture that succeeds
ShutterCapture(s) ==
  IF Len(s.images) >= s.config.maxImages THEN s
  ELSE [s EXCEPT !.images = Append(@, [id |-> s.nextFile, file |-> s.nextFile,
                                        status |-> "pending"]),
                 !.nextFile = @ + 1]

RemoveImage(s, imageId) ==
  LET at == { k \in 1..Len(s.images) : s.images[k].id = imageId }
  IN  IF at = {} THEN s
      ELSE [s EXCEPT !.images = RemoveAt(@, (CHOOSE k \in at : TRUE) - 1)]

\* submitImages after its loop
SubmitEnd(s, call) ==
  LET ended == [n |-> s.submitted.n + 1, start |-> call.start, attempted |-> call.attempted,
                succeeded |-> call.succeeded, failed |-> call.failed,
                files |-> call.uploadedFiles, before |-> s.images, aborted |-> FALSE]
  IN  IF call.uploadedFiles # <<>>
      THEN [s EXCEPT !.onUploadImageSuccess = Append(@, call.uploadedFiles),
                     !.images = WithoutUploaded(@),
                     !.submitted = ended]
      ELSE [s EXCEPT !.submitted = ended]

\* the loop of submitImages from position i of this.images (the array iterator's
\* index) up to its next `await this.uploadImage(img.file)`, or to its end
RECURSIVE SubmitLoop(_, _, _)
SubmitLoop(s, call, i) ==
  IF i >= Len(s.images) THEN SubmitEnd(s, call)
  ELSE LET img == s.images[i + 1]
       IN  IF img.status \in {"pending", "error"}
           THEN [s EXCEPT !.uploads = Append(@, img.file),
                          !.submits = Append(@, [call EXCEPT !.i = i, !.id = img.id,
                                                            !.file = img.file,
                                                            !.attempted = Append(@, img.id)])]
           ELSE SubmitLoop(s, call, i + 1)

SubmitImages(s) ==
  SubmitLoop(s, [i |-> 0, id |-> 0, file |-> 0, uploadedFiles |-> <<>>, attempted |-> <<>>,
                 succeeded |-> <<>>, failed |-> <<>>, start |-> DueIds(s.images)], 0)

\* the k-th awaiting submitImages resumes: its upload resolved (ok) or rejected;
\* thrown is whether config.onError throws, which takes the inner catch to the
\* outer one, whose handleError throws again
SubmitResumed(s, k, ok, thrown) ==
  LET call == s.submits[k]
      rest == [s EXCEPT !.submits = RemoveAt(@, k - 1)]
  IN  IF ok
      THEN SubmitLoop([rest EXCEPT !.images = SetStatus(@, call.id, "uploaded")],
                      [call EXCEPT !.uploadedFiles = Append(@, call.file),
                                   !.succeeded = Append(@, call.id)],
                      call.i + 1)
      ELSE LET failed == [rest EXCEPT !.images = SetStatus(@, call.id, "error"),
                                      !.onError = @ + 1]
               noted == [call EXCEPT !.failed = Append(@, call.id)]
           IN  IF thrown
               THEN [failed EXCEPT !.onError = @ + 1,
                                   !.submitted = [n |-> s.submitted.n + 1, start |-> call.start,
                                                  attempted |-> call.attempted,
                                                  succeeded |-> call.succeeded,
                                                  failed |-> noted.failed,
                                                  files |-> call.uploadedFiles,
                                                  before |-> failed.images, aborted |-> TRUE]]
               ELSE SubmitLoop(failed, noted, call.i + 1)

Flow(name, s) ==
  /\ sdk' = s
  /\ op' = name
  /\ UNCHANGED <<editor, dragv, toggles, pushed, pre, rt, geo, scan, fit>>

DoShutterCapture ==
  /\ sdk.nextFile <= MaxCaptures
  /\ Flow("capture", ShutterCapture(sdk))

\* the remove button of a preview
DoRemoveImage(imageId) ==
  /\ imageId \in { sdk.images[k].id : k \in 1..Len(sdk.images) }
  /\ Flow("removeImage", RemoveImage(sdk, imageId))

\* the tick of the single preview, Upload All of the previews
DoSubmitImages ==
  /\ sdk.images # <<>>
  /\ Len(sdk.submits) < MaxSubmits
  /\ Flow("submitImages", SubmitImages(sdk))

UploadSettled(k, ok, thrown) ==
  /\ k \in 1..Len(sdk.submits)
  /\ ok => sdk.config.uploadUrl
  /\ thrown => ~ok
  /\ Flow(IF ok THEN "uploadResolved" ELSE "uploadRejected", SubmitResumed(sdk, k, ok, thrown))

SubmitConfigs ==
  { [DefaultConfig EXCEPT !.useNativeCamera = FALSE, !.uploadUrl = u, !.maxImages = m] :
      u \in BOOLEAN, m \in {1, 3} }

InitSubmit ==
  /\ InitEditor
  /\ geo = GeoIdle
  /\ scan = NewMultiScan(0)
  /\ \E config \in SubmitConfigs :
       sdk = [SdkMount(SdkInit(NewQrUpload(config), config), TRUE, TRUE) EXCEPT !.result = NoResult]
  /\ fit = FitIdle

NextSubmit ==
  \/ UNCHANGED steps /\ DoShutterCapture
  \/ UNCHANGED steps /\ \E imageId \in 1..MaxCaptures : DoRemoveImage(imageId)
  \/ steps < MaxSubmitCalls /\ steps' = steps + 1 /\ DoSubmitImages
  \/ UNCHANGED steps /\ \E k \in 1..MaxSubmits, ok, thrown \in BOOLEAN : UploadSettled(k, ok, thrown)

SpecSubmit == InitSubmit /\ [][NextSubmit]_vars

\* C34 (as claimed): submitImages attempts an upload for every image whose status
\* is pending or error, in list order; a failed upload sets that image's status
\* to error and does not prevent the later images from being attempted; every
\* successfully uploaded image is removed from the list while failed ones stay;
\* onUploadImageSuccess is invoked at most once per call, only when at least one
\* upload succeeded, with exactly the files that succeeded in this call.  (An
\* image the user removed during the call is not expected to be attempted or
\* to stay.)
C34_SubmitEveryDueImage ==
  [][ sdk'.submitted.n # sdk.submitted.n =>
        LET t == sdk'.submitted
            InList(id, l) == \E k \in 1..Len(l) : l[k].id = id
        IN  /\ \A j \in 1..Len(t.start) :
                 InList(t.start[j], t.before) =>
                   \E a \in 1..Len(t.attempted) : t.attempted[a] = t.start[j]
            /\ \A a, b \in 1..Len(t.attempted) :
                 (a < b /\ \E j \in 1..Len(t.start) : t.start[j] = t.attempted[a]) =>
                   \A ja, jb \in 1..Len(t.start) :
                     (t.start[ja] = t.attempted[a] /\ t.start[jb] = t.attempted[b]) => ja < jb
            /\ \A f \in 1..Len(t.failed) :
                 \A k \in 1..Len(t.before) :
                   t.before[k].id = t.failed[f] =>
                     \E m \in 1..Len(sdk'.images) :
                       sdk'.images[m].id = t.failed[f] /\ sdk'.images[m].status = "error"
            /\ \A u \in 1..Len(t.succeeded) : ~InList(t.succeeded[u], sdk'.images)
            /\ sdk'.onUploadImageSuccess
                 = IF t.files # <<>> THEN Append(sdk.onUploadImageSuccess, t.files)
                   ELSE sdk.onUploadImageSuccess
            /\ Len(t.files) = Len(t.succeeded) ]_vars

(***************************************************************************)
(* QrUpload: the native-camera interface.  Every change event of the file  *)
(* input registers a close, an edit and a tick listener on the buttons of  *)
(* the one preview overlay; a tap on a button runs all the listeners that  *)
(* were registered on it, in registration order.                           *)
(***************************************************************************)
\* the change listener of the file input; valid is whether a file of an allowed
\* type was chosen
NativeChange(s, valid) ==
  IF ~valid THEN s
  ELSE [s EXCEPT !.previewOverlay = TRUE,
                 !.handlers = Append(@, s.nextFile),
                 !.nextFile = @ + 1]

\* closeHandler of the change event that chose currentFile
CloseHandler(s, currentFile) ==
  [s EXCEPT !.previewOverlay = FALSE, !.onImageReject = @ + 1]

\* tickHandler of the change event that chose currentFile, up to its await or,
\* without an upload URL, to its end
TickHandler(s, currentFile) ==
  LET imageFile == [id |-> s.nextFile, file |-> currentFile,
                    status |-> IF s.config.uploadUrl THEN "uploading" ELSE "pending"]
      accepted == [s EXCEPT !.previewOverlay = FALSE,
                           !.onImageAccept = Append(@, currentFile),
                           !.images = Append(@, imageFile),
                           !.nextFile = @ + 1]
  IN  IF s.config.uploadUrl
      THEN [accepted EXCEPT !.uploads = Append(@, currentFile),
                           !.ticks = Append(@, [id |-> imageFile.id, file |-> currentFile])]
      ELSE accepted

\* a click runs the listeners of the first n change events, oldest first
RECURSIVE CloseClicked(_, _)
CloseClicked(s, n) ==
  IF n = 0 THEN s ELSE CloseHandler(CloseClicked(s, n - 1), s.handlers[n])

RECURSIVE TickClicked(_, _)
TickClicked(s, n) ==
  IF n = 0 THEN s ELSE TickHandler(TickClicked(s, n - 1), s.handlers[n])

\* tickHandler after `await this.uploadImage(currentFile)`
TickResumed(s, k, ok) ==
  LET t == s.ticks[k]
      rest == [s EXCEPT !.ticks = RemoveAt(@, k - 1)]
  IN  IF ok THEN [rest EXCEPT !.images = SetStatus(@, t.id, "uploaded")]
      ELSE [rest EXCEPT !.onError = @ + 1]

DoNativeChange(valid) == Flow("change", NativeChange(sdk, valid))

DoNativeClose ==
  /\ sdk.previewOverlay
  /\ Flow("closeClick", CloseClicked(sdk, Len(sdk.handlers)))

DoNativeTick ==
  /\ sdk.previewOverlay
  /\ Flow("tickClick", TickClicked(sdk, Len(sdk.handlers)))

TickSettled(k, ok) ==
  /\ k \in 1..Len(sdk.ticks)
  /\ Flow(IF ok THEN "tickUploaded" ELSE "tickFailed", TickResumed(sdk, k, ok))

NativeConfigs == { [DefaultConfig EXCEPT !.uploadUrl = u] : u \in BOOLEAN }

InitNative ==
  /\ InitEditor
  /\ geo = GeoIdle
  /\ scan = NewMultiScan(0)
  /\ \E config \in NativeConfigs :
       sdk = [SdkMount(SdkInit(NewQrUpload(config), config), TRUE, TRUE) EXCEPT !.result = NoResult]
  /\ fit = FitIdle

NextNative ==
  \/ /\ steps < MaxNativeOps
     /\ steps' = steps + 1
     /\ \/ \E valid \in BOOLEAN : ~sdk.previewOverlay /\ DoNativeChange(valid)
        \/ DoNativeClose
        \/ DoNativeTick
  \/ UNCHANGED steps /\ \E k \in 1..MaxNativeOps, ok \in BOOLEAN : TickSettled(k, ok)

SpecNative == InitNative /\ [][NextNative]_vars

\* C38 (as claimed): in the native-camera flow, after any sequence of captures,
\* rejections and acceptances, one tap on the accept button invokes
\* onImageAccept exactly once, with the most recently captured file, appends
\* exactly one entry to the image list and uploads that file at most once; one
\* tap on the reject button invokes onImageReject exactly once.
C38_OneTapOneCallback ==
  [][ /\ op' = "tickClick" =>
          LET latest == sdk.handlers[Len(sdk.handlers)]
          IN  /\ sdk'.onImageAccept = Append(sdk.onImageAccept, latest)
              /\ Len(sdk'.images) = Len(sdk.images) + 1
              /\ sdk'.images[Len(sdk'.images)].file = latest
              /\ sdk'.uploads \in {sdk.uploads, Append(sdk.uploads, latest)}
      /\ op' = "closeClick" => sdk'.onImageReject = sdk.onImageReject + 1 ]_vars

\* C36 (as claimed): isPollingActive() returns true exactly when polling is
\* running, i.e. between a startPolling() that returned true and the next
\* stopPolling() that returned true; after setPollingEnabled(true) returns
\* polling is running and after setPollingEnabled(false) returns it is not,
\* whatever the configured enablePolling and the earlier direct calls.
C36_PollingActiveIsRunning ==
  [][ /\ (op' = "isPollingActive" /\ ~sdk'.result.threw) =>
          sdk'.result.value = (sdk.isPolling /\ sdk.pollingInterval # 0)
      /\ (op' = "setPollingEnabled" /\ ~sdk'.result.threw) =>
          (sdk'.isPolling /\ sdk'.pollingInterval # 0) = sdk'.config.enablePolling ]_vars

\* C39 (as claimed): undo() never causes redo entries to be discarded: after an
\* undo, redo() remains available until the user makes a new edit, even when
\* the debounced save of the rotation slider was pending when undo was invoked
\* and fires afterwards; a burst of slider inputs within the debounce window
\* adds exactly one snapshot, which holds the final rotation value.
C39_UndoKeepsRedo ==
  [][ /\ rt'.stage = "undone" => historyIndex' < Len(history') - 1
      /\ op' = "rotationInput" => (history' = history /\ historyIndex' = historyIndex)
      /\ op' = "rotationTimeout" =>
           /\ history'[historyIndex' + 1].rotation = state.rotation
           /\ historyIndex' = Len(history') - 1
           /\ (historyIndex = Len(history) - 1 /\ Len(history) < HISTORY_CAP) =>
                Len(history') = Len(history) + 1 ]_vars

====
